---- MODULE Spec2Model ----
(***************************************************************************)
(* Timely: the task store of TaskProvider (src/app/components/TaskList.tsx) *)
(* with its quick-capture parser, its recurrence/streak engine, the undo   *)
(* slot of deleteTask and the persisted blob of useLocalStorage.           *)
(*                                                                         *)
(* Time.  An instant is an integer number of seconds of local time since   *)
(* 1970-01-01T00:00 (a Date, at one-second resolution, in a zone without   *)
(* daylight-saving shifts).  toISOString / new Date(iso) are inverse to    *)
(* each other on instants, so a stored ISO string is the instant itself.   *)
(* NULL is the null of dueDate, reminderAt, lastCompletedAt.               *)
(***************************************************************************)
EXTENDS Integers, Sequences, FiniteSets, TLC

NULL == -1

(***************************************************************************)
(* Calendar (what Date and date-fns compute in local time).                *)
(***************************************************************************)
DayLen == 24 * 60 * 60

\* Date#getFullYear/getMonth/getDate of a day number (days since 1970-01-01);
\* months are 1..12 here (Date#getMonth() + 1).
CivilFromDays(z) ==
  LET z2  == z + 719468
      era == z2 \div 146097
      doe == z2 - era * 146097
      yoe == (doe - doe \div 1460 + doe \div 36524 - doe \div 146096) \div 365
      doy == doe - (365 * yoe + yoe \div 4 - yoe \div 100)
      mp  == (5 * doy + 2) \div 153
      d   == doy - (153 * mp + 2) \div 5 + 1
      m   == IF mp < 10 THEN mp + 3 ELSE mp - 9
      y   == yoe + era * 400 + (IF m <= 2 THEN 1 ELSE 0)
  IN  [y |-> y, m |-> m, d |-> d]

\* new Date(y, m - 1, d) as a day number; d = 0 is the last day of month m - 1
\* and m may run past 12, as Date's setMonth/setFullYear normalise them.
DaysFromCivil(y0, m0, d) ==
  LET yN  == y0 + (m0 - 1) \div 12
      mN  == ((m0 - 1) % 12) + 1
      y   == IF mN <= 2 THEN yN - 1 ELSE yN
      era == y \div 400
      yoe == y - era * 400
      mp  == IF mN > 2 THEN mN - 3 ELSE mN + 9
      doy == (153 * mp + 2) \div 5 + d - 1
      doe == yoe * 365 + yoe \div 4 - yoe \div 100 + doy
  IN  era * 146097 + doe - 719468

DayOf(t) == t \div DayLen

TimeOfDay(t) == t % DayLen

\* Date#getDay(): 0 = Sunday .. 6 = Saturday (1970-01-01 was a Thursday).
getDay(t) == (DayOf(t) + 4) % 7

startOfDay(t) == DayOf(t) * DayLen

addDays(t, n) == t + n * DayLen

addWeeks(t, n) == addDays(t, 7 * n)

\* date-fns addMonths: the day of month is clamped to the length of the
\* desired month, the time of day is kept.
addMonths(t, n) ==
  LET c           == CivilFromDays(DayOf(t))
      endDay      == DaysFromCivil(c.y, c.m + n + 1, 0)
      daysInMonth == CivilFromDays(endDay).d
  IN  IF c.d >= daysInMonth
        THEN endDay * DayLen + TimeOfDay(t)
        ELSE DaysFromCivil(c.y, c.m + n, c.d) * DayLen + TimeOfDay(t)

addYears(t, n) == addMonths(t, 12 * n)

differenceInCalendarDays(a, b) == DayOf(a) - DayOf(b)

\* date-fns startOfWeek with the default weekStartsOn = 0 (Sunday).
startOfWeek(t) == addDays(startOfDay(t), 0 - getDay(t))

differenceInCalendarWeeks(a, b) ==
  (DayOf(startOfWeek(a)) - DayOf(startOfWeek(b))) \div 7

differenceInCalendarMonths(a, b) ==
  LET ca == CivilFromDays(DayOf(a))
      cb == CivilFromDays(DayOf(b))
  IN  (ca.y - cb.y) * 12 + (ca.m - cb.m)

differenceInCalendarYears(a, b) ==
  CivilFromDays(DayOf(a)).y - CivilFromDays(DayOf(b)).y

\* date-fns nextDay(date, day): the next date with that weekday, strictly later.
nextDay(t, day) ==
  LET delta0 == day - getDay(t)
      delta  == IF delta0 <= 0 THEN delta0 + 7 ELSE delta0
  IN  addDays(t, delta)

\* format(date, "yyyy-MM-dd"): the date-key, kept as the triple it spells.
formatDateKey(t) ==
  LET c == CivilFromDays(DayOf(t)) IN <<c.y, c.m, c.d>>

\* new Date(`${key}T00:00:00`): local midnight of the day a date-key spells.
dateFromKey(k) == DaysFromCivil(k[1], k[2], k[3]) * DayLen

(***************************************************************************)
(* Regular expressions, as String.prototype.replace / RegExp#test apply    *)
(* them: a backtracking matcher that lists, in the engine's order of       *)
(* preference, the positions at which a match starting at position i can   *)
(* end.  A position is the index of the next character, 1 .. Len(s) + 1.   *)
(***************************************************************************)
CharsOf(str) == {SubSeq(str, i, i) : i \in 1..Len(str)}

UpperLetters == "ABCDEFGHIJKLMNOPQRSTUVWXYZ"

LowerLetters == "abcdefghijklmnopqrstuvwxyz"

Digits == "0123456789"

\* String#toLowerCase on one character.
LowerChar(c) ==
  IF c \in CharsOf(UpperLetters)
    THEN LET i == CHOOSE j \in 1..Len(UpperLetters) : SubSeq(UpperLetters, j, j) = c
         IN  SubSeq(LowerLetters, i, i)
    ELSE c

RECURSIVE toLowerCase(_)
toLowerCase(s) ==
  IF Len(s) = 0 THEN ""
  ELSE LowerChar(SubSeq(s, 1, 1)) \o toLowerCase(SubSeq(s, 2, Len(s)))

\* \w, \s and the class [a-z0-9-] of the patterns.
WordChars == CharsOf(UpperLetters) \cup CharsOf(LowerLetters) \cup CharsOf(Digits) \cup {"_"}

SpaceChars == {" ", "\t", "\n"}

SlugChars == CharsOf(LowerLetters) \cup CharsOf(Digits) \cup {"-"}

Eps == [t |-> "eps"]

Chr(set) == [t |-> "chr", set |-> set]

NotChr(set) == [t |-> "nchr", set |-> set]

WB == [t |-> "wb"]

Bol == [t |-> "bol"]

Eol == [t |-> "eol"]

Seq2(a, b) == [t |-> "seq", a |-> a, b |-> b]

Alt2(a, b) == [t |-> "alt", a |-> a, b |-> b]

Star(a) == [t |-> "star", a |-> a]

Plus(a) == Seq2(a, Star(a))

Opt(a) == Alt2(a, Eps)

RECURSIVE SeqOf(_)
SeqOf(rs) == IF Len(rs) = 0 THEN Eps
             ELSE IF Len(rs) = 1 THEN rs[1] ELSE Seq2(rs[1], SeqOf(Tail(rs)))

RECURSIVE Lit(_)
Lit(str) == IF Len(str) = 0 THEN Eps
            ELSE IF Len(str) = 1 THEN Chr({str})
            ELSE Seq2(Chr({SubSeq(str, 1, 1)}), Lit(SubSeq(str, 2, Len(str))))

\* (w1|w2|...) in the order written.
RECURSIVE AltLits(_)
AltLits(ws) == IF Len(ws) = 1 THEN Lit(ws[1]) ELSE Alt2(Lit(ws[1]), AltLits(Tail(ws)))

IsWordAt(s, i) == i >= 1 /\ i <= Len(s) /\ SubSeq(s, i, i) \in WordChars

\* The capture groups of a match: group n spans positions g[n][1] .. g[n][2] - 1;
\* <<0, 0>> is a group that did not take part (undefined).
NoGroups == <<<<0, 0>>, <<0, 0>>, <<0, 0>>>>

Grp(n, a) == [t |-> "grp", n |-> n, a |-> a]

RECURSIVE MatchEnds(_, _, _, _, _)
RECURSIVE ThenEnds(_, _, _, _, _)
RECURSIVE SetGroup(_, _, _, _)
\* The matches of re that start at position i, in the engine's order of
\* preference, each as [e |-> end position, g |-> capture groups].
\* ci is the pattern's i flag: the subject character is compared lowered.
MatchEnds(re, s, i, ci, g) ==
  LET c == IF i <= Len(s)
             THEN (IF ci THEN LowerChar(SubSeq(s, i, i)) ELSE SubSeq(s, i, i))
             ELSE ""
      here == <<[e |-> i, g |-> g]>>
      next == <<[e |-> i + 1, g |-> g]>>
  IN  CASE re.t = "eps"  -> here
        [] re.t = "chr"  -> IF i <= Len(s) /\ c \in re.set THEN next ELSE <<>>
        [] re.t = "nchr" -> IF i <= Len(s) /\ c \notin re.set THEN next ELSE <<>>
        [] re.t = "wb"   -> IF IsWordAt(s, i - 1) # IsWordAt(s, i) THEN here ELSE <<>>
        [] re.t = "bol"  -> IF i = 1 THEN here ELSE <<>>
        [] re.t = "eol"  -> IF i = Len(s) + 1 THEN here ELSE <<>>
        [] re.t = "seq"  -> ThenEnds(MatchEnds(re.a, s, i, ci, g), 1, re.b, s, ci)
        [] re.t = "alt"  -> MatchEnds(re.a, s, i, ci, g) \o MatchEnds(re.b, s, i, ci, g)
        [] re.t = "grp"  -> SetGroup(MatchEnds(re.a, s, i, ci, g), 1, re.n, i)
        [] re.t = "star" ->
             ThenEnds(SelectSeq(MatchEnds(re.a, s, i, ci, g), LAMBDA m : m.e > i),
                      1, re, s, ci)
               \o here

ThenEnds(ms, k, re, s, ci) ==
  IF k > Len(ms) THEN <<>>
  ELSE MatchEnds(re, s, ms[k].e, ci, ms[k].g) \o ThenEnds(ms, k + 1, re, s, ci)

SetGroup(ms, k, n, i) ==
  IF k > Len(ms) THEN <<>>
  ELSE <<[e |-> ms[k].e, g |-> [ms[k].g EXCEPT ![n] = <<i, ms[k].e>>]]>>
         \o SetGroup(ms, k + 1, n, i)

MatchAt(re, s, i, ci) == MatchEnds(re, s, i, ci, NoGroups)

\* RegExp#test without the g flag: is there a match anywhere in s.
Test(re, s, ci) == \E i \in 1..(Len(s) + 1) : Len(MatchAt(re, s, i, ci)) > 0

\* String#match / RegExp#exec without the g flag: the leftmost match, as
\* [at |-> start, e |-> end, g |-> groups]; at = 0 when there is none (null).
NoMatch == [at |-> 0, e |-> 0, g |-> NoGroups]

RECURSIVE ExecFrom(_, _, _, _)
ExecFrom(re, s, i, ci) ==
  IF i > Len(s) + 1 THEN NoMatch
  ELSE LET ms == MatchAt(re, s, i, ci)
       IN  IF Len(ms) > 0 THEN [at |-> i, e |-> ms[1].e, g |-> ms[1].g]
           ELSE ExecFrom(re, s, i + 1, ci)

Exec(re, s, ci) == ExecFrom(re, s, 1, ci)

\* match[n] of a match m of s; "" stands for undefined (see HasGroup).
HasGroup(m, n) == m.at # 0 /\ m.g[n] # <<0, 0>>

GroupText(s, m, n) == IF HasGroup(m, n) THEN SubSeq(s, m.g[n][1], m.g[n][2] - 1) ELSE ""

\* String#matchAll with a g-flagged pattern: group n of every match, in order.
RECURSIVE MatchAllFrom(_, _, _, _, _)
MatchAllFrom(re, s, i, ci, n) ==
  LET m == ExecFrom(re, s, i, ci)
  IN  IF m.at = 0 THEN <<>>
      ELSE <<GroupText(s, m, n)>>
             \o MatchAllFrom(re, s, IF m.e = m.at THEN m.e + 1 ELSE m.e, ci, n)

matchAllGroup(re, s, ci, n) == MatchAllFrom(re, s, 1, ci, n)

\* String#replace with a g-flagged pattern and a fixed replacement: leftmost
\* matches, left to right, not overlapping; an empty match moves on by one.
RECURSIVE ReplaceFrom(_, _, _, _, _)
ReplaceFrom(re, s, i, ci, with) ==
  IF i > Len(s) + 1 THEN ""
  ELSE LET ms == MatchAt(re, s, i, ci)
       IN  IF Len(ms) = 0
             THEN (IF i <= Len(s) THEN SubSeq(s, i, i) ELSE "")
                    \o ReplaceFrom(re, s, i + 1, ci, with)
           ELSE IF ms[1].e = i
             THEN with \o (IF i <= Len(s) THEN SubSeq(s, i, i) ELSE "")
                    \o ReplaceFrom(re, s, i + 1, ci, with)
           ELSE with \o ReplaceFrom(re, s, ms[1].e, ci, with)

replaceAll(re, s, ci, with) == ReplaceFrom(re, s, 1, ci, with)

\* String#trim.
RECURSIVE trim(_)
trim(s) ==
  IF Len(s) = 0 THEN s
  ELSE IF SubSeq(s, 1, 1) \in SpaceChars THEN trim(SubSeq(s, 2, Len(s)))
  ELSE IF SubSeq(s, Len(s), Len(s)) \in SpaceChars THEN trim(SubSeq(s, 1, Len(s) - 1))
  ELSE s

(***************************************************************************)
(* The quick-capture parser: the patterns of cleanTaskTitle.               *)
(***************************************************************************)
WeekdayWords ==
  <<"mon", "monday", "tue", "tues", "tuesday", "wed", "weds", "wednesday",
    "thu", "thurs", "thursday", "fri", "friday", "sat", "saturday", "sun", "sunday">>

\* /#([a-z0-9-]+)/gi
ReCategory == Seq2(Chr({"#"}), Grp(1, Plus(Chr(SlugChars))))

\* /@([a-z0-9-]+)/gi
ReTag == Seq2(Chr({"@"}), Grp(1, Plus(Chr(SlugChars))))

\* /\b(!high|!med|!medium|!low|p1|p2|p3)\b/gi
RePriorityTitle ==
  SeqOf(<<WB, AltLits(<<"!high", "!med", "!medium", "!low", "p1", "p2", "p3">>), WB>>)

\* /\bevery\s+(day|week|month|year)\b/gi
ReEveryTitle ==
  SeqOf(<<WB, Lit("every"), Plus(Chr(SpaceChars)),
          AltLits(<<"day", "week", "month", "year">>), WB>>)

\* /\b(daily|weekly|monthly|yearly)\b/gi
ReCadenceTitle == SeqOf(<<WB, AltLits(<<"daily", "weekly", "monthly", "yearly">>), WB>>)

\* /\b(next\s+)?(mon|monday|...|sun|sunday)\b/gi
ReWeekdayTitle ==
  SeqOf(<<WB, Opt(Seq2(Lit("next"), Plus(Chr(SpaceChars)))), AltLits(WeekdayWords), WB>>)

\* /\b(today|tomorrow)\b/gi
ReRelativeDay == SeqOf(<<WB, AltLits(<<"today", "tomorrow">>), WB>>)

\* /\bremind(?:\s+at)?\s+(today|tomorrow)?\s*[a-z0-9:./-]+\s*(am|pm)?\b/gi
ReRemindTitle ==
  SeqOf(<<WB, Lit("remind"), Opt(Seq2(Plus(Chr(SpaceChars)), Lit("at"))),
          Plus(Chr(SpaceChars)), Opt(AltLits(<<"today", "tomorrow">>)),
          Star(Chr(SpaceChars)),
          Plus(Chr(SlugChars \cup {":", ".", "/"})),
          Star(Chr(SpaceChars)), Opt(AltLits(<<"am", "pm">>)), WB>>)

\* />\s*[^#@!]+/g
ReSectionTitle == SeqOf(<<Chr({">"}), Star(Chr(SpaceChars)), Plus(NotChr({"#", "@", "!"}))>>)

\* /\s+/g
ReSpaces == Plus(Chr(SpaceChars))

cleanTaskTitle(input) ==
  LET s1 == replaceAll(ReCategory, input, TRUE, "")
      s2 == replaceAll(ReTag, s1, TRUE, "")
      s3 == replaceAll(RePriorityTitle, s2, TRUE, "")
      s4 == replaceAll(ReEveryTitle, s3, TRUE, "")
      s5 == replaceAll(ReCadenceTitle, s4, TRUE, "")
      s6 == replaceAll(ReWeekdayTitle, s5, TRUE, "")
      s7 == replaceAll(ReRelativeDay, s6, TRUE, "")
      s8 == replaceAll(ReRemindTitle, s7, TRUE, "")
      s9 == replaceAll(ReSectionTitle, s8, FALSE, "")
      sA == replaceAll(ReSpaces, s9, FALSE, " ")
  IN  trim(sA)

(***************************************************************************)
(* The quick-capture parser: the field extractors.  referenceNow is the    *)
(* instant new Date() returns while the line is parsed.                    *)
(***************************************************************************)
\* normalizeTag: tag.trim().toLowerCase()
normalizeTag(tag) == toLowerCase(trim(tag))

RECURSIVE MapNormalizeTag(_)
MapNormalizeTag(ws) ==
  IF Len(ws) = 0 THEN <<>> ELSE <<normalizeTag(ws[1])>> \o MapNormalizeTag(Tail(ws))

\* DEFAULT_CATEGORIES, as <<id, name>>.
DEFAULT_CATEGORIES ==
  << <<"work", "Work">>, <<"personal", "Personal">>, <<"school", "School">>,
     <<"health", "Health">>, <<"finance", "Finance">> >>

RECURSIVE FirstCategory(_, _, _)
FirstCategory(matches, k, categories) ==
  IF k > Len(matches) THEN ""
  ELSE LET hits == SelectSeq(categories,
                     LAMBDA c : c[1] = matches[k] \/ normalizeTag(c[2]) = matches[k])
       IN  IF Len(hits) > 0 THEN hits[1][1] ELSE FirstCategory(matches, k + 1, categories)

getCategoryFromInput(input, categories) ==
  LET matches == MapNormalizeTag(matchAllGroup(ReCategory, input, TRUE, 1))
      found   == FirstCategory(matches, 1, categories)
  IN  IF found # "" THEN found
      ELSE IF Len(categories) > 0 THEN categories[1][1] ELSE "personal"

extractTags(input) == MapNormalizeTag(matchAllGroup(ReTag, input, TRUE, 1))

\* /\b(!high|p1)\b/, /\b(!med|!medium|p2)\b/, /\b(!low|p3)\b/
RePriority(words) == SeqOf(<<WB, AltLits(words), WB>>)

extractPriority(input) ==
  LET lowered == toLowerCase(input)
  IN  IF Test(RePriority(<<"!high", "p1">>), lowered, FALSE) THEN "high"
      ELSE IF Test(RePriority(<<"!med", "!medium", "p2">>), lowered, FALSE) THEN "medium"
      ELSE IF Test(RePriority(<<"!low", "p3">>), lowered, FALSE) THEN "low"
      ELSE "none"

\* /\b(every\s+day|daily)\b/ and its three siblings
ReRepeat(unit, adverb) ==
  SeqOf(<<WB, Alt2(SeqOf(<<Lit("every"), Plus(Chr(SpaceChars)), Lit(unit)>>), Lit(adverb)), WB>>)

extractRepeat(input) ==
  LET lowered == toLowerCase(input)
  IN  IF Test(ReRepeat("day", "daily"), lowered, FALSE) THEN "daily"
      ELSE IF Test(ReRepeat("week", "weekly"), lowered, FALSE) THEN "weekly"
      ELSE IF Test(ReRepeat("month", "monthly"), lowered, FALSE) THEN "monthly"
      ELSE IF Test(ReRepeat("year", "yearly"), lowered, FALSE) THEN "yearly"
      ELSE "none"

\* />\s*([^#@!]+)/
ReSection ==
  SeqOf(<<Chr({">"}), Star(Chr(SpaceChars)), Grp(1, Plus(NotChr({"#", "@", "!"})))>>)

extractSection(input) ==
  LET m == Exec(ReSection, input, FALSE)
  IN  IF m.at # 0 THEN trim(GroupText(input, m, 1)) ELSE ""

\* weekdayIndexes[word] ?? 0
weekdayIndexes(word) ==
  CASE word \in {"sun", "sunday"} -> 0
    [] word \in {"mon", "monday"} -> 1
    [] word \in {"tue", "tues", "tuesday"} -> 2
    [] word \in {"wed", "weds", "wednesday"} -> 3
    [] word \in {"thu", "thurs", "thursday"} -> 4
    [] word \in {"fri", "friday"} -> 5
    [] word \in {"sat", "saturday"} -> 6
    [] OTHER -> 0

\* /\bnext\s+(mon|monday|...|sunday)\b/
ReNextWeekday ==
  SeqOf(<<WB, Lit("next"), Plus(Chr(SpaceChars)), Grp(1, AltLits(WeekdayWords)), WB>>)

\* /\b(mon|monday|...|sunday)\b/
ReWeekday == SeqOf(<<WB, Grp(1, AltLits(WeekdayWords)), WB>>)

\* Which branch of extractDueDate the line takes (this does not depend on the
\* clock): [kind, index], index being the weekday index of the two weekday
\* branches.
dueDirective(input) ==
  LET lowered   == toLowerCase(input)
      nextMatch == Exec(ReNextWeekday, lowered, FALSE)
      match     == Exec(ReWeekday, lowered, FALSE)
  IN  IF Test(SeqOf(<<WB, Lit("today"), WB>>), lowered, FALSE)
        THEN [kind |-> "today", index |-> 0]
      ELSE IF Test(SeqOf(<<WB, Lit("tomorrow"), WB>>), lowered, FALSE)
        THEN [kind |-> "tomorrow", index |-> 0]
      ELSE IF nextMatch.at # 0
        THEN [kind |-> "next",
              index |-> weekdayIndexes(GroupText(lowered, nextMatch, 1))]
      ELSE IF match.at # 0
        THEN [kind |-> "weekday",
              index |-> weekdayIndexes(GroupText(lowered, match, 1))]
      ELSE [kind |-> "none", index |-> 0]

\* The date each branch of extractDueDate returns.
\* The bare weekday looked for backward from today.
resolveDueDate_Backward(dir, referenceNow) ==
  LET today == startOfDay(referenceNow)
  IN  CASE dir.kind = "today"    -> today
        [] dir.kind = "tomorrow" -> startOfDay(addDays(today, 1))
        [] dir.kind = "next"     -> startOfDay(addDays(nextDay(today, dir.index), 0))
        [] dir.kind = "weekday"  -> startOfDay(addDays(nextDay(today, dir.index), -7))
        [] OTHER -> NULL

\* "next" taken a week further.
resolveDueDate_NextWeek(dir, referenceNow) ==
  LET today == startOfDay(referenceNow)
  IN  CASE dir.kind = "today"    -> today
        [] dir.kind = "tomorrow" -> startOfDay(addDays(today, 1))
        [] dir.kind = "next"     -> startOfDay(addDays(nextDay(today, dir.index), 7))
        [] dir.kind = "weekday"  -> startOfDay(nextDay(addDays(today, -1), dir.index))
        [] OTHER -> NULL

resolveDueDate(dir, referenceNow) ==
  LET today == startOfDay(referenceNow)
  IN  CASE dir.kind = "today"    -> today
        [] dir.kind = "tomorrow" -> startOfDay(addDays(today, 1))
        [] dir.kind = "next"     -> startOfDay(addDays(nextDay(today, dir.index), 0))
        [] dir.kind = "weekday"  -> startOfDay(nextDay(addDays(today, -1), dir.index))
        [] OTHER -> NULL

extractDueDate(input, referenceNow) == resolveDueDate(dueDirective(input), referenceNow)

\* Number(text) of a run of decimal digits.
RECURSIVE ToNumber(_)
ToNumber(str) ==
  IF Len(str) = 0 THEN 0
  ELSE 10 * ToNumber(SubSeq(str, 1, Len(str) - 1))
         + ((CHOOSE j \in 1..10 : SubSeq(Digits, j, j) = SubSeq(str, Len(str), Len(str))) - 1)

Digit == Chr(CharsOf(Digits))

\* /remind(?:\s+at)?\s+(today|tomorrow)?\s*([0-9:./-]+(?:\s*(?:am|pm))?)/i
ReRemind ==
  SeqOf(<<Lit("remind"), Opt(Seq2(Plus(Chr(SpaceChars)), Lit("at"))),
          Plus(Chr(SpaceChars)), Opt(Grp(1, AltLits(<<"today", "tomorrow">>))),
          Star(Chr(SpaceChars)),
          Grp(2, Seq2(Plus(Chr(CharsOf(Digits) \cup {":", ".", "/", "-"})),
                      Opt(Seq2(Star(Chr(SpaceChars)), AltLits(<<"am", "pm">>)))))>>)

\* /^(\d{4})-(\d{2})-(\d{2})$/
ReDateToken ==
  SeqOf(<<Bol, Grp(1, SeqOf(<<Digit, Digit, Digit, Digit>>)), Chr({"-"}),
          Grp(2, Seq2(Digit, Digit)), Chr({"-"}), Grp(3, Seq2(Digit, Digit)), Eol>>)

\* /^(\d{1,2})(?::(\d{2}))?\s*(am|pm)?$/
ReTimeToken ==
  SeqOf(<<Bol, Grp(1, Seq2(Digit, Opt(Digit))),
          Opt(Seq2(Chr({":"}), Grp(2, Seq2(Digit, Digit)))),
          Star(Chr(SpaceChars)), Opt(Grp(3, AltLits(<<"am", "pm">>))), Eol>>)

\* Which branch of extractReminderAt the line takes and the numbers it reads
\* (this does not depend on the clock).
reminderDirective(input) ==
  LET lowered       == toLowerCase(input)
      reminderMatch == Exec(ReRemind, lowered, TRUE)
      dateToken     == GroupText(lowered, reminderMatch, 1)
      timeToken     == trim(GroupText(lowered, reminderMatch, 2))
      dateMatch     == Exec(ReDateToken, timeToken, FALSE)
      timeMatch     == Exec(ReTimeToken, timeToken, FALSE)
      hours0        == ToNumber(GroupText(timeToken, timeMatch, 1))
      minutes       == IF HasGroup(timeMatch, 2)
                         THEN ToNumber(GroupText(timeToken, timeMatch, 2)) ELSE 0
      meridiem      == GroupText(timeToken, timeMatch, 3)
      hours1        == IF meridiem = "pm" /\ hours0 < 12 THEN hours0 + 12 ELSE hours0
      hours         == IF meridiem = "am" /\ hours1 = 12 THEN 0 ELSE hours1
      none          == [kind |-> "none", tomorrow |-> FALSE, a |-> 0, b |-> 0, c |-> 0]
  IN  IF reminderMatch.at = 0 THEN none
      ELSE IF dateMatch.at # 0
        THEN [kind |-> "date", tomorrow |-> dateToken = "tomorrow",
              a |-> ToNumber(GroupText(timeToken, dateMatch, 1)),
              b |-> ToNumber(GroupText(timeToken, dateMatch, 2)),
              c |-> ToNumber(GroupText(timeToken, dateMatch, 3))]
      ELSE IF timeMatch.at # 0
        THEN [kind |-> "time", tomorrow |-> dateToken = "tomorrow",
              a |-> hours, b |-> minutes, c |-> 0]
      ELSE none

\* The day word left unread.
resolveReminderAt_SameDay(dir, referenceNow) ==
  LET baseDate == startOfDay(referenceNow)
  IN  CASE dir.kind = "date" -> DaysFromCivil(dir.a, dir.b, dir.c) * DayLen + 9 * 60 * 60
        [] dir.kind = "time" -> baseDate + dir.a * 60 * 60 + dir.b * 60
        [] OTHER -> NULL

\* The instant each branch of extractReminderAt returns.
resolveReminderAt(dir, referenceNow) ==
  LET baseDate == startOfDay(referenceNow)
      date     == IF dir.tomorrow THEN addDays(baseDate, 1) ELSE baseDate
  IN  CASE dir.kind = "date" ->
             \* new Date(year, month - 1, day, 9, 0, 0)
             DaysFromCivil(dir.a, dir.b, dir.c) * DayLen + 9 * 60 * 60
        [] dir.kind = "time" ->
             \* setSeconds(setMinutes(setHours(date, hours), minutes), 0)
             date + dir.a * 60 * 60 + dir.b * 60
        [] OTHER -> NULL

extractReminderAt(input, referenceNow) ==
  resolveReminderAt(reminderDirective(input), referenceNow)

(***************************************************************************)
(* Tasks.  A task is a record; a legacy record may lack the newer fields.  *)
(***************************************************************************)
Repeats == {"none", "daily", "weekly", "monthly", "yearly"}

\* { ...task, ...updates }
Merge(task, updates) ==
  [f \in (DOMAIN task) \cup (DOMAIN updates) |->
     IF f \in DOMAIN updates THEN updates[f] ELSE task[f]]

\* createTask(title, category, overrides), with the id crypto.randomUUID()
\* returns (a value no earlier call returned) and new Date() = createdAt.
createTask(id, title, category, overrides, createdAt) ==
  Merge([id |-> id, title |-> title, category |-> category, section |-> "",
         tags |-> <<>>, dueDate |-> NULL, reminderAt |-> NULL, priority |-> "none",
         repeat |-> "none", status |-> "todo", notes |-> "", checklist |-> <<>>,
         myDay |-> <<>>, lastCompletedAt |-> NULL, streak |-> 0,
         completedDates |-> <<>>, createdAt |-> createdAt],
        overrides)

\* createChecklistItems(items); item ids are made unique by the task id.
createChecklistItems(id, items) ==
  [k \in 1..Len(items) |-> [id |-> <<id, k>>, text |-> items[k], done |-> FALSE]]

\* task.field ?? fallback, for a field a legacy record may lack
FieldOr(task, f, fallback) == IF f \in DOMAIN task THEN task[f] ELSE fallback

\* What a number field may hold besides a number: undefined (also what a read
\* of a field that a record lacks gives) and NaN; null is NULL.
UNDEFINED == -2

NaN == -3

\* task.field, for a number field a legacy record may lack
NumberField(task, f) == FieldOr(task, f, UNDEFINED)

\* x + 1: undefined + 1 and NaN + 1 are NaN, null + 1 is 1
plusOne(x) ==
  IF x \in {UNDEFINED, NaN} THEN NaN
  ELSE IF x = NULL THEN 1
  ELSE x + 1

\* !x for a date field: null and undefined are falsy
isUnset(x) == x \in {NULL, UNDEFINED}

\* typeof x === "number"
isNumber(x) == x \notin {NULL, UNDEFINED}

\* normalizeTask
normalizeTask(task) ==
  Merge(task,
        [section         |-> FieldOr(task, "section", ""),
         tags            |-> FieldOr(task, "tags", <<>>),
         repeat          |-> FieldOr(task, "repeat", "none"),
         checklist       |-> FieldOr(task, "checklist", <<>>),
         reminderAt      |-> FieldOr(task, "reminderAt", NULL),
         myDay           |-> FieldOr(task, "myDay", <<>>),
         lastCompletedAt |-> IF isUnset(NumberField(task, "lastCompletedAt"))
                               THEN NULL ELSE task.lastCompletedAt,
         streak          |-> IF isNumber(NumberField(task, "streak"))
                               THEN task.streak ELSE 0,
         completedDates  |-> FieldOr(task, "completedDates", <<>>)])

\* current.map(normalizeTask)
RECURSIVE normalizeTasks(_)
normalizeTasks(ts) ==
  IF Len(ts) = 0 THEN <<>> ELSE <<normalizeTask(ts[1])>> \o normalizeTasks(Tail(ts))

Ids(ts) == {ts[i].id : i \in 1..Len(ts)}

\* current.find((task) => task.id === id), as an index; 0 when there is none
FindIndex(ts, id) ==
  IF id \in Ids(ts) THEN CHOOSE i \in 1..Len(ts) :
                           ts[i].id = id /\ \A j \in 1..(i - 1) : ts[j].id # id
  ELSE 0

(***************************************************************************)
(* The recurrence and streak engine of toggleStatus.                       *)
(***************************************************************************)
\* the switch on task.repeat that picks differenceInCalendar<Unit>
cadenceDelta(repeat, nowT, lastCompleted) ==
  CASE repeat = "daily"   -> differenceInCalendarDays(nowT, lastCompleted)
    [] repeat = "weekly"  -> differenceInCalendarWeeks(nowT, lastCompleted)
    [] repeat = "monthly" -> differenceInCalendarMonths(nowT, lastCompleted)
    [] repeat = "yearly"  -> differenceInCalendarYears(nowT, lastCompleted)
    [] OTHER -> 0

\* A streak that survives missed periods: delta > 1 counts like delta = 1.
StreakAfterDelta_NeverResets(streak, delta) ==
  IF delta <= 0 THEN streak ELSE plusOne(streak)

StreakAfterDelta(streak, delta) ==
  IF delta <= 0 THEN streak
  ELSE IF delta = 1 THEN plusOne(streak)
  ELSE 1

\* A streak counted for every task that is completed, repeating or not.
nextStreak_AnyTask(task, nowT) ==
  IF task.status # "done"
    THEN IF isUnset(NumberField(task, "lastCompletedAt")) THEN 1
         ELSE StreakAfterDelta(NumberField(task, "streak"),
                               cadenceDelta("daily", nowT, task.lastCompletedAt))
    ELSE NumberField(task, "streak")

\* nextStreak
nextStreak(task, nowT) ==
  IF task.status # "done" /\ task.repeat # "none"
    THEN IF isUnset(NumberField(task, "lastCompletedAt")) THEN 1
         ELSE StreakAfterDelta(NumberField(task, "streak"),
                               cadenceDelta(task.repeat, nowT, task.lastCompletedAt))
    ELSE NumberField(task, "streak")

\* the switch on task.repeat that picks add<Unit>(baseDate, 1)
addCadence(repeat, baseDate) ==
  CASE repeat = "daily"   -> addDays(baseDate, 1)
    [] repeat = "weekly"  -> addWeeks(baseDate, 1)
    [] repeat = "monthly" -> addMonths(baseDate, 1)
    [] repeat = "yearly"  -> addYears(baseDate, 1)
    [] OTHER -> baseDate

\* A next occurrence counted from the completion instant, not the due date.
nextDueDate_FromNow(task, nowT) == startOfDay(addCadence(task.repeat, nowT))

\* startOfDay(nextDate), nextDate advanced from the due date, or from now
nextDueDate(task, nowT) ==
  LET baseDate == IF task.dueDate # NULL THEN task.dueDate ELSE nowT
  IN  startOfDay(addCadence(task.repeat, baseDate))

\* Array.from(new Set(array)): first occurrences, in order
RECURSIVE ArrayFromSet(_)
ArrayFromSet(xs) ==
  IF Len(xs) = 0 THEN <<>>
  ELSE LET init == ArrayFromSet(SubSeq(xs, 1, Len(xs) - 1))
           x    == xs[Len(xs)]
       IN  IF \E i \in 1..Len(init) : init[i] = x THEN init ELSE Append(init, x)

\* A log of completions that records every completion, not every day.
addCompletedDate_Appends(task, nowT) ==
  Append(FieldOr(task, "completedDates", <<>>), formatDateKey(startOfDay(nowT)))

\* A log that holds only the day of the latest completion.
addCompletedDate_LatestOnly(task, nowT) == <<formatDateKey(startOfDay(nowT))>>

\* new Set(task.completedDates ?? []).add(todayKey), as an array
addCompletedDate(task, nowT) ==
  ArrayFromSet(Append(FieldOr(task, "completedDates", <<>>),
                      formatDateKey(startOfDay(nowT))))

\* A completion that leaves a repeating task done until it is toggled again.
toggledTask_StaysDone(task, nowT) ==
  LET isCompleting == task.status # "done"
  IN  Merge(task, [status          |-> IF isCompleting THEN "done" ELSE "todo",
                   lastCompletedAt |-> IF isCompleting THEN nowT
                                       ELSE NumberField(task, "lastCompletedAt"),
                   streak          |-> IF isCompleting THEN nextStreak(task, nowT)
                                       ELSE NumberField(task, "streak")])

\* An un-completion that forgets when the task was completed.
toggledTask_ForgetsCompletion(task, nowT) ==
  LET isCompleting == task.status # "done"
  IN  IF isCompleting /\ task.repeat # "none"
        THEN Merge(task, [status          |-> "todo",
                          dueDate         |-> nextDueDate(task, nowT),
                          lastCompletedAt |-> nowT,
                          streak          |-> nextStreak(task, nowT),
                          completedDates  |-> addCompletedDate(task, nowT)])
        ELSE Merge(task, [status          |-> IF isCompleting THEN "done" ELSE "todo",
                          lastCompletedAt |-> IF isCompleting THEN nowT ELSE NULL,
                          streak          |-> IF isCompleting THEN nextStreak(task, nowT)
                                              ELSE NumberField(task, "streak")])

\* A toggle that stamps the task's creation time anew.
toggledTask_Restamps(task, nowT) ==
  LET isCompleting == task.status # "done"
  IN  IF isCompleting /\ task.repeat # "none"
        THEN Merge(task, [status          |-> "todo",
                          dueDate         |-> nextDueDate(task, nowT),
                          lastCompletedAt |-> nowT,
                          streak          |-> nextStreak(task, nowT),
                          completedDates  |-> addCompletedDate(task, nowT),
                          createdAt       |-> nowT])
        ELSE Merge(task, [status          |-> IF isCompleting THEN "done" ELSE "todo",
                          lastCompletedAt |-> IF isCompleting THEN nowT
                                              ELSE NumberField(task, "lastCompletedAt"),
                          streak          |-> IF isCompleting THEN nextStreak(task, nowT)
                                              ELSE NumberField(task, "streak"),
                          createdAt       |-> nowT])

\* A toggle that also takes the task out of My Day.
toggledTask_LeavesMyDay(task, nowT) ==
  LET isCompleting == task.status # "done"
  IN  IF isCompleting /\ task.repeat # "none"
        THEN Merge(task, [status          |-> "todo",
                          dueDate         |-> nextDueDate(task, nowT),
                          lastCompletedAt |-> nowT,
                          streak          |-> nextStreak(task, nowT),
                          completedDates  |-> addCompletedDate(task, nowT),
                          myDay           |-> <<>>])
        ELSE Merge(task, [status          |-> IF isCompleting THEN "done" ELSE "todo",
                          lastCompletedAt |-> IF isCompleting THEN nowT
                                              ELSE NumberField(task, "lastCompletedAt"),
                          streak          |-> IF isCompleting THEN nextStreak(task, nowT)
                                              ELSE NumberField(task, "streak"),
                          myDay           |-> <<>>])

\* what toggleStatus pushes in place of the task whose id matches
toggledTask(task, nowT) ==
  LET isCompleting == task.status # "done"
  IN  IF isCompleting /\ task.repeat # "none"
        THEN Merge(task, [status          |-> "todo",
                          dueDate         |-> nextDueDate(task, nowT),
                          lastCompletedAt |-> nowT,
                          streak          |-> nextStreak(task, nowT),
                          completedDates  |-> addCompletedDate(task, nowT)])
        ELSE Merge(task, [status          |-> IF isCompleting THEN "done" ELSE "todo",
                          lastCompletedAt |-> IF isCompleting THEN nowT
                                              ELSE NumberField(task, "lastCompletedAt"),
                          streak          |-> IF isCompleting THEN nextStreak(task, nowT)
                                              ELSE NumberField(task, "streak")])

(***************************************************************************)
(* The store: TaskProvider's state, useLocalStorage's blob, the clock.     *)
(***************************************************************************)
VARIABLES
  now,              \* what new Date() / Date.now() returns
  isReady,          \* useLocalStorage's isReady
  storage,          \* window.localStorage's item under STORAGE_KEY
  tasks,            \* useLocalStorage's storedValue: the task collection
  recentlyDeleted,  \* the undo slot: <<>> (null) or <<task>>
  deleteTimeout,    \* the instant the live expiry timer is due, or NULL
  nextId,           \* the next value crypto.randomUUID() returns
  ops,              \* how many events (handler calls, clock steps) have happened
  lastOp,           \* the last store operation called: [op, id, arg]
  undoTimers,       \* the outstanding timers that deleteTask set: [due]
  permission,       \* the browser's Notification.permission
  reminderStatus,   \* TaskProvider's reminderStatus
  reminderTimeouts, \* reminderTimeouts.current: task id -> timer
  remindTimers,     \* the outstanding timers that the reminder effect set
  notifications,    \* the notifications raised: [id, title, at]
  exportFile        \* the backup file handleExport last wrote

vars ==
  <<now, isReady, storage, tasks, recentlyDeleted, deleteTimeout, nextId, ops, lastOp,
    undoTimers, permission, reminderStatus, reminderTimeouts, remindTimers,
    notifications, exportFile>>

\* Bounds of the model.
MaxTasks == 2

MaxOps == 4

\* setTimeout(..., 5000) of deleteTask, in seconds
UndoDelay == 5

\* The clock starts on Saturday 2023-12-30 at noon and advances by one of
\* these steps: 3 seconds (within the undo delay), 13 hours (into the next
\* calendar day and, from a Saturday, the next week), 2 days (into the next
\* month and year), 400 days.
StartInstants == {DaysFromCivil(2023, 12, 30) * DayLen + 12 * 60 * 60}

Jumps == {3, 13 * 60 * 60, 2 * DayLen, 400 * DayLen}

\* The lines typed into the capture box.
InputLines == {"", "#work @tag", "#work !high", "buy milk"}

\* What addTask reads off a line, but for the clock.
parseLine(input) ==
  [title    |-> cleanTaskTitle(input),
   category |-> getCategoryFromInput(input, DEFAULT_CATEGORIES),
   section  |-> extractSection(input),
   tags     |-> extractTags(input),
   priority |-> extractPriority(input),
   repeat   |-> extractRepeat(input),
   due      |-> dueDirective(input),
   reminder |-> reminderDirective(input)]

\* A line that asks for a reminder on a date.
ReminderLines == {"renew passport remind 2024-02-01"}

\* Lines that name a weekday, bare and after "next", one for each name.
WeekdayLines ==
  {"gym " \o WeekdayWords[i] : i \in 1..Len(WeekdayWords)}
    \cup {"gym next " \o WeekdayWords[i] : i \in 1..Len(WeekdayWords)}

\* Lines that carry a priority token after a space.
PriorityLines ==
  {"Ship report #work @deadline !high every week >Launch",
   "call mom !med", "file taxes !medium #finance", "water plants !low", "fix door p1"}

\* Lines that ask for a reminder at a time: "remind", the optional "at", the
\* optional day word, the hour, the optional minutes and the optional am/pm.
TimeLine(at, day, hour, minutes, meridiem) ==
  "x remind " \o at \o day \o hour \o minutes \o meridiem

\* The tokens typed: hours with every meridiem, minutes with two of the
\* hours, and the day words and "at" with one of the times.
TimeTokens ==
  ({""} \X {""} \X {"0", "3", "09", "11", "12", "13", "24"} \X {""} \X {"", "am", "pm"})
    \cup ({""} \X {""} \X {"9", "23"} \X {":05", ":60"} \X {"", " pm"})
    \cup ({"", "at "} \X {"", "today ", "tomorrow "} \X {"3"} \X {""} \X {"pm"})

TimeLines == {TimeLine(t[1], t[2], t[3], t[4], t[5]) : t \in TimeTokens}

Parsed ==
  [input \in InputLines \cup ReminderLines \cup WeekdayLines \cup PriorityLines
              \cup TimeLines |->
     parseLine(input)]

\* The templates of TaskList: each holds one entry
\* [title, category, overrides, checklistItems].
Templates ==
  << [title |-> "Morning routine", category |-> "health",
      overrides |-> [tags |-> <<"habit", "morning">>, repeat |-> "daily"],
      checklistItems |-> <<"Hydrate", "Stretch", "Plan top 3">>],
     [title |-> "Deep work block", category |-> "work",
      overrides |-> [tags |-> <<"focus">>, priority |-> "high"],
      checklistItems |-> <<>>],
     [title |-> "Weekly review", category |-> "work",
      overrides |-> [tags |-> <<"review">>, repeat |-> "weekly"],
      checklistItems |-> <<>>],
     [title |-> "Workout", category |-> "health",
      overrides |-> [tags |-> <<"habit">>, repeat |-> "weekly"],
      checklistItems |-> <<>>],
     [title |-> "Grocery list", category |-> "personal",
      overrides |-> <<>>,
      checklistItems |-> <<"Produce", "Protein", "Pantry staples">>] >>

\* JSON.stringify of a task: a field that holds undefined is left out and
\* NaN is written as null; what JSON.parse gives back.
jsonOfTask(task) ==
  LET kept == {f \in DOMAIN task :
                 ~(f \in {"streak", "lastCompletedAt"} /\ task[f] = UNDEFINED)}
  IN  IF /\ FieldOr(task, "streak", 0) \notin {UNDEFINED, NaN}
         /\ FieldOr(task, "lastCompletedAt", NULL) # UNDEFINED
        THEN task
        ELSE [f \in kept |-> IF f = "streak" /\ task[f] = NaN THEN NULL ELSE task[f]]

\* JSON.stringify(value) as the stored item or the exported file: what
\* JSON.parse of the text gives.
JSONstringify(value) ==
  [kind  |-> "json",
   value |-> IF Len(value) = 0 THEN <<>>
             ELSE [i \in 1..Len(value) |-> jsonOfTask(value[i])]]

\* readStorage(key, fallback)
readStorage(blob, fallback) ==
  IF blob.kind = "json" THEN blob.value ELSE fallback

\* What localStorage may hold when the page opens: nothing, or the collection
\* an earlier session wrote: a daily habit completed on the two days before
\* the clock starts, and a task in progress.
StoredHabit ==
  createTask(-1, "stretch", "health",
             [repeat |-> "daily", streak |-> 2,
              dueDate |-> DaysFromCivil(2023, 12, 30) * DayLen,
              lastCompletedAt |-> DaysFromCivil(2023, 12, 29) * DayLen + 12 * 60 * 60,
              completedDates |-> <<<<2023, 12, 28>>, <<2023, 12, 29>>>>],
             DaysFromCivil(2023, 12, 27) * DayLen)

StoredTask ==
  createTask(0, "call bank", "finance", [status |-> "in-progress"],
             DaysFromCivil(2023, 12, 1) * DayLen)

InitialBlobs ==
  {[kind |-> "absent", value |-> <<>>], JSONstringify(<<StoredHabit, StoredTask>>)}

\* The state when the page opens, with one of the blobs in localStorage.
Start(blobs, instants) ==
  /\ now \in instants
  /\ isReady = FALSE
  /\ storage \in blobs
  /\ tasks = <<>>
  /\ recentlyDeleted = <<>>
  /\ deleteTimeout = NULL
  /\ nextId = 1
  /\ ops = 0
  /\ lastOp = [op |-> "init", id |-> NULL, arg |-> ""]
  /\ undoTimers = {}
  /\ permission = "default"
  /\ reminderStatus = "default"
  /\ reminderTimeouts = <<>>
  /\ remindTimers = {}
  /\ notifications = {}
  /\ exportFile = [kind |-> "absent", value |-> <<>>]

Init == Start(InitialBlobs, StartInstants)

\* setValue of useLocalStorage: the new collection is stored and written.
setTasks(nextValue) ==
  /\ tasks' = nextValue
  /\ storage' = JSONstringify(nextValue)

\* setTimeout's delay: the milliseconds are converted to a 32-bit signed
\* integer, so they wrap modulo 2^32, and a negative delay counts as 0.  From
\* seconds to seconds: 1000 * delay modulo 2^32 is 8 * (125 * delay modulo
\* 2^29), and 125 * delay is computed without leaving 32 bits.
TimesFiveMod(a, m) == (((2 * ((2 * a) % m)) % m) + a) % m

timeoutSeconds(delay) ==
  LET m     == 2^29
      units == TimesFiveMod(TimesFiveMod(TimesFiveMod(delay % m, m), m), m)
  IN  IF units >= 2^28 THEN 0 ELSE (units + 124) \div 125

\* The tasks the reminder effect sets a timer for.
needsReminder(task, nowT) ==
  /\ FieldOr(task, "reminderAt", NULL) # NULL
  /\ task.status # "done"
  /\ task.reminderAt > nowT

\* setTimeout(() => {...}, remindAt - now): the timer, which holds the task
\* of the render that set it; made is the event that set it.
reminderTimer(task, nowT, stamp, nth) ==
  [id    |-> task.id,
   title |-> task.title,
   due   |-> nowT + timeoutSeconds(task.reminderAt - nowT),
   made  |-> stamp,
   nth   |-> nth]

\* reminderTimeouts.current.set(id, timeout)
MapSet(map, id, timeout) ==
  [x \in DOMAIN map \cup {id} |-> IF x = id THEN timeout ELSE map[x]]

\* tasks.forEach of the reminder effect: the timers set and the map filled
RECURSIVE scheduleReminders(_, _, _, _)
scheduleReminders(ts, nowT, stamp, acc) ==
  IF Len(ts) = 0 THEN acc
  ELSE IF needsReminder(Head(ts), nowT)
    THEN LET timeout == reminderTimer(Head(ts), nowT, stamp, Cardinality(acc.timers) + 1)
         IN  scheduleReminders(Tail(ts), nowT, stamp,
                               [timers |-> acc.timers \cup {timeout},
                                map    |-> MapSet(acc.map, Head(ts).id, timeout)])
    ELSE scheduleReminders(Tail(ts), nowT, stamp, acc)

\* The reminder effect, run after a render in which isReady, reminderStatus
\* or tasks changed: the timers of the map are cleared and the map emptied,
\* then, when ready and granted, a timer is set for every task that needs one.
RunReminderEffect ==
  LET live == remindTimers \ {reminderTimeouts[id] : id \in DOMAIN reminderTimeouts}
      set  == scheduleReminders(tasks', now, ops', [timers |-> {}, map |-> <<>>])
  IN  IF ~isReady' \/ reminderStatus' # "granted"
        THEN /\ remindTimers' = live
             /\ reminderTimeouts' = <<>>
        ELSE /\ remindTimers' = live \cup set.timers
             /\ reminderTimeouts' = set.map

\* A render in which none of the three changed.
SkipReminderEffect == UNCHANGED <<remindTimers, reminderTimeouts>>

\* The mount effects of useLocalStorage and TaskProvider, then the effect of
\* TaskProvider that normalizes legacy records once isReady is set.
needsUpdate(current) ==
  \E i \in 1..Len(current) :
    ~("tags" \in DOMAIN current[i]) \/ ~("repeat" \in DOMAIN current[i])
      \/ ~("checklist" \in DOMAIN current[i])

Load ==
  /\ ~isReady
  /\ LET value == readStorage(storage, <<>>)
     IN  setTasks(IF needsUpdate(value) THEN normalizeTasks(value) ELSE value)
  /\ isReady' = TRUE
  /\ reminderStatus' = permission
  /\ lastOp' = [op |-> "load", id |-> NULL, arg |-> ""]
  /\ UNCHANGED <<now, recentlyDeleted, deleteTimeout, nextId, ops>>
  /\ UNCHANGED <<undoTimers, permission, notifications, exportFile>>
  /\ RunReminderEffect

\* A timer that is due runs before any later event is handled.
TimerDue == \E timeout \in undoTimers \cup remindTimers : now >= timeout.due

\* The handlers are reachable once AppShell renders, i.e. when isReady.
CanHandle == isReady /\ ~TimerDue /\ ops < MaxOps

Tick(d) ==
  /\ ops < MaxOps
  /\ ~TimerDue
  /\ now' = now + d
  /\ ops' = ops + 1
  /\ UNCHANGED <<isReady, storage, tasks, recentlyDeleted, deleteTimeout, nextId, lastOp>>
  /\ UNCHANGED <<undoTimers, permission, reminderStatus, reminderTimeouts,
                 remindTimers, notifications, exportFile>>

(***************************************************************************)
(* The store operations, as functions of the collection.                   *)
(***************************************************************************)
\* addTask's new task for a line whose cleaned title is not empty
capturedTask(id, draft, nowT) ==
  createTask(id, draft.title, draft.category,
             [section    |-> draft.section,
              tags       |-> draft.tags,
              priority   |-> draft.priority,
              repeat     |-> draft.repeat,
              dueDate    |-> resolveDueDate(draft.due, nowT),
              reminderAt |-> resolveReminderAt(draft.reminder, nowT)],
             nowT)

\* New tasks put behind the stored ones.
prepend_Appends(newTasks, current) == current \o newTasks

\* setTasks((current) => [newTask, ...current])
prepend(newTasks, current) == newTasks \o current

\* the template button's createTask(entry.title, entry.category, {...})
templateTask(id, entry, nowT) ==
  createTask(id, entry.title, entry.category,
             Merge(entry.overrides,
                   [checklist |-> IF Len(entry.checklistItems) > 0
                                    THEN createChecklistItems(id, entry.checklistItems)
                                    ELSE <<>>]),
             nowT)

\* addTasks(newTasks)
addTasks(newTasks, current) ==
  IF Len(newTasks) = 0 THEN current ELSE prepend(newTasks, current)

\* An update that is applied to every task, whatever its id.
updateTask_EveryTask(current, id, updates) ==
  IF Len(current) = 0 THEN <<>>
  ELSE [i \in 1..Len(current) |-> Merge(current[i], updates)]

\* updateTask(id, updates)
updateTask(current, id, updates) ==
  LET apply(task) == IF task.id = id THEN Merge(task, updates) ELSE task
  IN  IF Len(current) = 0 THEN <<>>
      ELSE [i \in 1..Len(current) |-> apply(current[i])]

\* current.filter((task) => task.id !== id)
removeTask(current, id) == SelectSeq(current, LAMBDA task : task.id # id)

\* A completion that moves the toggled task to the front.
toggleStatus_MovesToFront(current, id, nowT) ==
  LET at == FindIndex(current, id)
  IN  IF at = 0 THEN current
      ELSE prepend(<<toggledTask(current[at], nowT)>>, removeTask(current, id))

\* toggleStatus(id)
toggleStatus(current, id, nowT) ==
  LET apply(task) == IF task.id # id THEN task ELSE toggledTask(task, nowT)
  IN  IF Len(current) = 0 THEN <<>>
      ELSE [i \in 1..Len(current) |-> apply(current[i])]

(***************************************************************************)
(* The edit form of TaskItem.  The drafts hold the task's values as the    *)
(* form shows them, but for repeat and due date, which the user sets.      *)
(***************************************************************************)
\* tags.join(", ")
RECURSIVE joinTags(_)
joinTags(tags) ==
  IF Len(tags) = 0 THEN ""
  ELSE IF Len(tags) = 1 THEN tags[1]
  ELSE tags[1] \o ", " \o joinTags(Tail(tags))

\* draftTags.split(",").map((tag) => tag.trim()).filter(Boolean)
RECURSIVE splitTags(_, _)
splitTags(str, from) ==
  LET commas == {i \in from..Len(str) : SubSeq(str, i, i) = ","}
      stop   == IF commas = {} THEN Len(str) + 1
                ELSE CHOOSE i \in commas : \A j \in commas : i <= j
      piece  == trim(SubSeq(str, from, stop - 1))
      rest   == IF stop > Len(str) THEN <<>> ELSE splitTags(str, stop + 1)
  IN  IF piece = "" THEN rest ELSE <<piece>> \o rest

\* the draft of a date field: format(new Date(value), "yyyy-MM-dd"), "" as <<>>
draftDate(value) == IF value = NULL THEN <<>> ELSE formatDateKey(value)

\* new Date(draft): the key read as UTC midnight, one hour off local midnight
dateOfDraft_AsUTC(draft) ==
  IF draft = <<>> THEN NULL ELSE dateFromKey(draft) + 60 * 60

\* new Date(`${draft}T00:00:00`).toISOString(), null for the empty draft
dateOfDraft(draft) == IF draft = <<>> THEN NULL ELSE dateFromKey(draft)

\* format(.., "yyyy-MM-dd'T'HH:mm") and back: the draft keeps whole minutes
minuteOfDraft(value) == IF value = NULL THEN NULL ELSE value - (value % 60)

\* the updates handleSave passes to onUpdate
savedFields(task, draftRepeat, draftDueDate) ==
  [title        |-> IF trim(task.title) # "" THEN trim(task.title) ELSE task.title,
   notes        |-> task.notes,
   category     |-> task.category,
   section      |-> trim(FieldOr(task, "section", "")),
   priority     |-> task.priority,
   tags         |-> splitTags(joinTags(FieldOr(task, "tags", <<>>)), 1),
   repeat       |-> draftRepeat,
   dueDate      |-> dateOfDraft(draftDueDate),
   snoozedUntil |-> dateOfDraft(draftDate(FieldOr(task, "snoozedUntil", NULL))),
   bucket       |-> FieldOr(task, "bucket", "inbox"),
   reminderAt   |-> minuteOfDraft(FieldOr(task, "reminderAt", NULL)),
   checklist    |-> FieldOr(task, "checklist", <<>>)]

\* What the user may put into the repeat and due-date drafts.
Drafts ==
  {[repeat |-> "daily", dueDate |-> <<>>],
   [repeat |-> "weekly", dueDate |-> <<>>],
   [repeat |-> "monthly", dueDate |-> <<2024, 1, 31>>],
   [repeat |-> "yearly", dueDate |-> <<2024, 2, 29>>]}

\* The templates whose button the user may press.
TemplateChoices == {3}

(***************************************************************************)
(* Actions: one per handler.                                               *)
(***************************************************************************)
Called(op, id, arg) ==
  /\ lastOp' = [op |-> op, id |-> id, arg |-> arg]
  /\ ops' = ops + 1

\* What no handler of the store changes.
HandlerKeeps ==
  UNCHANGED <<now, isReady, permission, reminderStatus, notifications, exportFile>>

AddTask(input) ==
  /\ CanHandle
  /\ HandlerKeeps
  /\ LET draft == Parsed[input]
     IN  IF draft.title = ""
           THEN /\ UNCHANGED <<tasks, storage, nextId>>
                /\ Called("addTask", NULL, input)
                /\ SkipReminderEffect
           ELSE /\ nextId <= MaxTasks
                /\ setTasks(prepend(<<capturedTask(nextId, draft, now)>>, tasks))
                /\ nextId' = nextId + 1
                /\ Called("addTask", nextId, input)
                /\ RunReminderEffect
  /\ UNCHANGED <<recentlyDeleted, deleteTimeout, undoTimers>>

AddTasks(k) ==
  /\ CanHandle
  /\ HandlerKeeps
  /\ nextId <= MaxTasks
  /\ setTasks(addTasks(<<templateTask(nextId, Templates[k], now)>>, tasks))
  /\ nextId' = nextId + 1
  /\ Called("addTasks", nextId, "")
  /\ UNCHANGED <<recentlyDeleted, deleteTimeout, undoTimers>>
  /\ RunReminderEffect

\* handleSave of the task's edit form
HandleSave(id, draftRepeat, draftDueDate) ==
  /\ CanHandle
  /\ HandlerKeeps
  /\ LET task == tasks[FindIndex(tasks, id)]
     IN  setTasks(updateTask(tasks, id, savedFields(task, draftRepeat, draftDueDate)))
  /\ Called("handleSave", id, "")
  /\ UNCHANGED <<recentlyDeleted, deleteTimeout, undoTimers, nextId>>
  /\ RunReminderEffect

\* handleDrop of WeeklyCalendar: a list item without due date is dropped on
\* a day cell; setTaskDueDate(id, date.toISOString()).
SetTaskDueDate(id, date) ==
  /\ CanHandle
  /\ HandlerKeeps
  /\ id \in Ids(tasks) => tasks[FindIndex(tasks, id)].dueDate = NULL
  /\ setTasks(updateTask(tasks, id, [dueDate |-> date]))
  /\ Called("setTaskDueDate", id, "")
  /\ UNCHANGED <<recentlyDeleted, deleteTimeout, undoTimers, nextId>>
  /\ RunReminderEffect

\* clearTimeout(deleteTimeoutRef.current): the timer the ref holds, if it is
\* still outstanding, is outstanding no more.
clearUndoTimer(timers, ref) == {timeout \in timers : timeout.due # ref}

\* A delete that sets its timer without clearing the one set before.
DeleteTask_KeepsEarlierTimer(id) ==
  /\ CanHandle
  /\ HandlerKeeps
  /\ Called("deleteTask", id, "")
  /\ LET at == FindIndex(tasks, id)
     IN  IF at = 0
           THEN /\ setTasks(tasks)
                /\ UNCHANGED <<recentlyDeleted, deleteTimeout, undoTimers>>
                /\ SkipReminderEffect
           ELSE /\ recentlyDeleted' = <<tasks[at]>>
                /\ deleteTimeout' = now + UndoDelay
                /\ undoTimers' = undoTimers \cup {[due |-> now + UndoDelay]}
                /\ setTasks(removeTask(tasks, id))
                /\ RunReminderEffect
  /\ UNCHANGED nextId

DeleteTask(id) ==
  /\ CanHandle
  /\ HandlerKeeps
  /\ Called("deleteTask", id, "")
  /\ LET at == FindIndex(tasks, id)
     IN  IF at = 0
           THEN /\ setTasks(tasks)
                /\ UNCHANGED <<recentlyDeleted, deleteTimeout, undoTimers>>
                /\ SkipReminderEffect
           ELSE /\ recentlyDeleted' = <<tasks[at]>>
                /\ deleteTimeout' = now + UndoDelay
                /\ undoTimers' = clearUndoTimer(undoTimers, deleteTimeout)
                                    \cup {[due |-> now + UndoDelay]}
                /\ setTasks(removeTask(tasks, id))
                /\ RunReminderEffect
  /\ UNCHANGED nextId

\* An undo that restores the held task and goes on holding it.
UndoDelete_KeepsSlot ==
  /\ CanHandle
  /\ HandlerKeeps
  /\ Called("undoDelete", NULL, "")
  /\ IF recentlyDeleted = <<>>
       THEN /\ UNCHANGED <<tasks, storage, recentlyDeleted, deleteTimeout, undoTimers>>
            /\ SkipReminderEffect
       ELSE /\ setTasks(prepend(recentlyDeleted, tasks))
            /\ UNCHANGED <<recentlyDeleted, deleteTimeout, undoTimers>>
            /\ RunReminderEffect
  /\ UNCHANGED nextId

UndoDelete ==
  /\ CanHandle
  /\ HandlerKeeps
  /\ Called("undoDelete", NULL, "")
  /\ IF recentlyDeleted = <<>>
       THEN /\ UNCHANGED <<tasks, storage, recentlyDeleted, deleteTimeout, undoTimers>>
            /\ SkipReminderEffect
       ELSE /\ deleteTimeout' = NULL
            /\ undoTimers' = clearUndoTimer(undoTimers, deleteTimeout)
            /\ setTasks(prepend(recentlyDeleted, tasks))
            /\ recentlyDeleted' = <<>>
            /\ RunReminderEffect
  /\ UNCHANGED nextId

\* the callback of deleteTask's setTimeout
ExpireUndo ==
  \E timeout \in undoTimers :
    /\ now >= timeout.due
    /\ recentlyDeleted' = <<>>
    /\ undoTimers' = undoTimers \ {timeout}
    /\ deleteTimeout' = IF deleteTimeout = timeout.due THEN NULL ELSE deleteTimeout
    /\ UNCHANGED <<now, isReady, storage, tasks, nextId, ops, lastOp>>
    /\ UNCHANGED <<permission, reminderStatus, reminderTimeouts, remindTimers,
                   notifications, exportFile>>

ToggleStatus(id) ==
  /\ CanHandle
  /\ HandlerKeeps
  /\ setTasks(toggleStatus(tasks, id, now))
  /\ Called("toggleStatus", id, "")
  /\ UNCHANGED <<recentlyDeleted, deleteTimeout, undoTimers, nextId>>
  /\ RunReminderEffect

Next ==
  \/ Load
  \/ \E d \in Jumps : Tick(d)
  \/ \E input \in InputLines : AddTask(input)
  \/ \E k \in TemplateChoices : AddTasks(k)
  \/ \E id \in Ids(tasks), d \in Drafts : HandleSave(id, d.repeat, d.dueDate)
  \/ \E id \in Ids(tasks) : SetTaskDueDate(id, addDays(startOfDay(now), 1))
  \/ \E id \in Ids(tasks) : DeleteTask(id)
  \/ UndoDelete
  \/ ExpireUndo
  \/ \E id \in Ids(tasks) : ToggleStatus(id)

Spec == Init /\ [][Next]_vars

(***************************************************************************)
(* Backups: records that earlier versions stored, export and import.       *)
(***************************************************************************)
\* createTask as the previous version of the store had it: no section,
\* reminderAt, myDay, lastCompletedAt, streak or completedDates.
previousCreateTask(id, title, category, overrides, createdAt) ==
  Merge([id |-> id, title |-> title, category |-> category, tags |-> <<>>,
         dueDate |-> NULL, priority |-> "none", repeat |-> "none",
         status |-> "todo", notes |-> "", checklist |-> <<>>,
         createdAt |-> createdAt],
        overrides)

\* A record of the previous version, untouched since.
LegacyTask ==
  previousCreateTask(-1, "water plants", "personal", [tags |-> <<"home">>],
                     DaysFromCivil(2023, 11, 1) * DayLen)

\* A record of the previous version that this version's toggleStatus has
\* completed the day before the clock starts, as it was stored then.
LegacyDoneTask ==
  Merge(previousCreateTask(0, "read", "personal", [status |-> "done"],
                           DaysFromCivil(2023, 11, 2) * DayLen),
        [lastCompletedAt |-> DaysFromCivil(2023, 12, 29) * DayLen + 12 * 60 * 60])

\* A record from before tags, repeat and checklist existed.
OldestTask ==
  [id |-> -1, title |-> "pay rent", category |-> "finance", dueDate |-> NULL,
   priority |-> "none", status |-> "todo", notes |-> "",
   createdAt |-> DaysFromCivil(2023, 10, 1) * DayLen]

\* That record after this version's edit form has then made it a daily habit
\* (handleSave) and its My Day button has planned it for that day.
LegacyHabit ==
  Merge(Merge(LegacyDoneTask, savedFields(LegacyDoneTask, "daily", <<>>)),
        [myDay |-> <<<<2023, 12, 29>>>>])

BackupBlobs ==
  {JSONstringify(<<LegacyTask, LegacyDoneTask>>),
   JSONstringify(<<OldestTask, StoredTask>>),
   JSONstringify(<<LegacyHabit>>)}

InitBackup == Start(BackupBlobs, StartInstants)

\* handleExport: the downloaded file holds JSON.stringify(tasks, null, 2).
HandleExport ==
  /\ CanHandle
  /\ exportFile' = JSONstringify(tasks)
  /\ Called("handleExport", NULL, "")
  /\ UNCHANGED <<now, isReady, storage, tasks, recentlyDeleted, deleteTimeout, nextId>>
  /\ UNCHANGED <<undoTimers, permission, reminderStatus, reminderTimeouts,
                 remindTimers, notifications>>

\* JSON.parse(reader.result) throws on text that is no JSON; normalizeTask
\* throws on null (task.section of null), inside replaceTasks's map.
importThrows(file) ==
  \/ file.kind = "text"
  \/ /\ file.kind = "json"
     /\ \E i \in 1..Len(file.value) : "null" \in DOMAIN file.value[i]

\* replaceTasks without normalizeTask
replaceTasks_Raw(nextTasks) == nextTasks

\* replaceTasks(nextTasks)
replaceTasks(nextTasks) == normalizeTasks(nextTasks)

\* reader.onload of handleImport: the file's text is parsed and, if it is an
\* array, handed to replaceTasks; whatever is thrown is caught and dropped.
HandleImport(file) ==
  /\ CanHandle
  /\ HandlerKeeps
  /\ file.kind # "absent"
  /\ Called("handleImport", NULL, file)
  /\ IF file.kind = "json" /\ ~importThrows(file)
       THEN /\ setTasks(replaceTasks(file.value))
            /\ RunReminderEffect
       ELSE /\ UNCHANGED <<tasks, storage>>
            /\ SkipReminderEffect
  /\ UNCHANGED <<recentlyDeleted, deleteTimeout, undoTimers, nextId>>

\* The files a user may pick: text that is no JSON, JSON that is no array, an
\* array that holds null, the empty array, a backup of the previous version,
\* and the file exported last.
ImportFiles ==
  {[kind |-> "text", value |-> <<>>],
   [kind |-> "object", value |-> <<>>],
   [kind |-> "json", value |-> <<[null |-> TRUE]>>],
   [kind |-> "json", value |-> <<>>],
   JSONstringify(<<LegacyTask>>)}

NextBackup ==
  \/ Load
  \/ \E d \in {3, 2 * DayLen} : Tick(d)
  \/ \E id \in Ids(tasks) : HandleSave(id, "daily", <<>>)
  \/ \E id \in Ids(tasks) : DeleteTask(id)
  \/ UndoDelete
  \/ ExpireUndo
  \/ \E id \in Ids(tasks) : ToggleStatus(id)
  \/ HandleExport
  \/ \E file \in ImportFiles \cup {exportFile} : HandleImport(file)

SpecBackup == InitBackup /\ [][NextBackup]_vars

(***************************************************************************)
(* Reminders: the permission, the timers of the reminder effect and the    *)
(* notifications their callbacks raise.                                    *)
(***************************************************************************)
\* A stored task with a reminder six hours after the clock starts.
StoredCall ==
  createTask(0, "call dentist", "health",
             [reminderAt |-> DaysFromCivil(2023, 12, 30) * DayLen + 18 * 60 * 60],
             DaysFromCivil(2023, 12, 29) * DayLen)

ReminderBlobs == {JSONstringify(<<StoredCall>>)}

InitReminder == Start(ReminderBlobs, StartInstants)

\* requestReminderPermission, from the "Enable reminders" button, which is
\* shown while reminderStatus is neither unsupported, granted nor denied: the
\* browser asks the user, and the answer becomes reminderStatus.
RequestReminderPermission ==
  /\ CanHandle
  /\ reminderStatus = "default"
  /\ permission' \in IF permission = "default" THEN {"granted", "denied"} ELSE {permission}
  /\ reminderStatus' = permission'
  /\ Called("requestReminderPermission", NULL, "")
  /\ UNCHANGED <<now, isReady, storage, tasks, recentlyDeleted, deleteTimeout, nextId>>
  /\ UNCHANGED <<undoTimers, notifications, exportFile>>
  /\ RunReminderEffect

\* The user grants or withdraws the permission in the browser's settings; the
\* page is not told.
ChangePermission ==
  /\ isReady
  /\ ~TimerDue
  /\ ops < MaxOps
  /\ permission' \in {"granted", "denied"} \ {permission}
  /\ Called("changePermission", NULL, "")
  /\ UNCHANGED <<now, isReady, storage, tasks, recentlyDeleted, deleteTimeout, nextId>>
  /\ UNCHANGED <<undoTimers, reminderStatus, reminderTimeouts, remindTimers,
                 notifications, exportFile>>

\* The callback of a reminder timer: new Notification("Timely reminder",
\* {body: task.title}) if Notification.permission is granted.  The timer was
\* due at timeout.due, and nothing has happened since.
FireReminder ==
  \E timeout \in remindTimers :
    /\ now >= timeout.due
    /\ remindTimers' = remindTimers \ {timeout}
    /\ notifications' =
         IF permission = "granted"
           THEN notifications \cup {[id |-> timeout.id, body |-> timeout.title,
                                     at |-> timeout.due]}
           ELSE notifications
    /\ UNCHANGED <<now, isReady, storage, tasks, recentlyDeleted, deleteTimeout,
                   nextId, ops, lastOp>>
    /\ UNCHANGED <<undoTimers, permission, reminderStatus, reminderTimeouts, exportFile>>

\* A backup that holds the stored task, exported in an earlier session.
ReminderBackups == {JSONstringify(<<StoredCall>>)}

NextReminder ==
  \/ Load
  \/ \E d \in {3, 6 * 60 * 60} : Tick(d)
  \/ RequestReminderPermission
  \/ ChangePermission
  \/ FireReminder
  \/ \E input \in ReminderLines : AddTask(input)
  \/ \E id \in Ids(tasks) : ToggleStatus(id)
  \/ \E id \in Ids(tasks) : DeleteTask(id)
  \/ UndoDelete
  \/ ExpireUndo
  \/ \E file \in ReminderBackups : HandleImport(file)

SpecReminder == InitReminder /\ [][NextReminder]_vars

(***************************************************************************)
(* The capture box on its own: a line typed on one of sixteen days.         *)
(***************************************************************************)
\* Noon and the last second of sixteen consecutive days.
ReferenceInstants ==
  {DaysFromCivil(2023, 12, 24 + k) * DayLen + s : k \in 0..15, s \in {12 * 60 * 60, DayLen - 1}}

InitParse == Start({[kind |-> "absent", value |-> <<>>]}, ReferenceInstants)

\* One line is typed into the empty list.
NextParse ==
  \/ Load
  \/ tasks = <<>> /\ \E input \in WeekdayLines \cup PriorityLines \cup TimeLines : AddTask(input)

SpecParse == InitParse /\ [][NextParse]_vars

(***************************************************************************)
(* The buttons of a list item and the calendar, on a short session.  A     *)
(* consumer of the store may also call it with the id of the task that was *)
(* deleted last, which the collection no longer holds.                     *)
(***************************************************************************)
\* the My Day button: today's key leaves myDay, or is put at its end
nextMyDay(task, nowT) ==
  LET todayKey  == formatDateKey(nowT)
      safeMyDay == FieldOr(task, "myDay", <<>>)
  IN  IF \E i \in 1..Len(safeMyDay) : safeMyDay[i] = todayKey
        THEN SelectSeq(safeMyDay, LAMBDA date : date # todayKey)
        ELSE Append(safeMyDay, todayKey)

\* "Move to Someday": the bucket flips between someday and inbox
nextBucket(task) ==
  IF FieldOr(task, "bucket", "") = "someday" THEN "inbox" ELSE "someday"

\* The task an item shows: the collection's, or the one deleted last.
itemTask(id) ==
  IF id \in Ids(tasks) THEN tasks[FindIndex(tasks, id)] ELSE recentlyDeleted[1]

\* onUpdate(task.id, updates) of an item's button
UpdateTask(id, updates) ==
  /\ CanHandle
  /\ HandlerKeeps
  /\ setTasks(updateTask(tasks, id, updates))
  /\ Called("updateTask", id, updates)
  /\ UNCHANGED <<recentlyDeleted, deleteTimeout, undoTimers, nextId>>
  /\ RunReminderEffect

\* the My Day button
ToggleMyDay(id) == UpdateTask(id, [myDay |-> nextMyDay(itemTask(id), now)])

\* "Snooze until tomorrow": addDays(startOfDay(new Date()), 1)
Snooze(id) == UpdateTask(id, [snoozedUntil |-> addDays(startOfDay(now), 1)])

\* "Move to Someday"
MoveBucket(id) ==
  UpdateTask(id, [bucket |-> nextBucket(itemTask(id)), dueDate |-> NULL])

\* The ids a call may carry: those of the collection and of the undo slot.
HeldIds == Ids(tasks) \cup Ids(recentlyDeleted)

NextEdit ==
  \/ Load
  \/ Tick(2 * DayLen)
  \/ AddTask("gym fri")
  \/ \E id \in Ids(tasks) : HandleSave(id, "monthly", <<2024, 1, 31>>)
  \/ \E id \in HeldIds : SetTaskDueDate(id, addDays(startOfDay(now), 1))
  \/ \E id \in Ids(tasks) : ToggleMyDay(id)
  \/ \E id \in Ids(tasks) : Snooze(id)
  \/ \E id \in HeldIds : MoveBucket(id)
  \/ \E id \in Ids(tasks) : DeleteTask(id)
  \/ UndoDelete
  \/ ExpireUndo
  \/ \E id \in HeldIds : ToggleStatus(id)

SpecEdit == Init /\ [][NextEdit]_vars

(***************************************************************************)
(* Properties.  A handler step is a step in which a handler was called:    *)
(* the clock stands still, one more event is counted and lastOp names the  *)
(* handler and the id it was called with.                                  *)
(***************************************************************************)
HandlerStep(op) == ops' = ops + 1 /\ now' = now /\ lastOp'.op = op

TaskOf(ts, id) == ts[FindIndex(ts, id)]

Range(xs) == {xs[i] : i \in 1..Len(xs)}

Count(xs, x) == Cardinality({i \in 1..Len(xs) : xs[i] = x})

\* toggleStatus(id) completes a repeating task in this step
CompletesRepeating(id) ==
  /\ HandlerStep("toggleStatus")
  /\ lastOp'.id = id
  /\ id \in Ids(tasks)
  /\ TaskOf(tasks, id).repeat # "none"
  /\ TaskOf(tasks, id).status # "done"

\* toggleStatus(id) toggles a non-repeating task in this step
TogglesPlain(id) ==
  /\ HandlerStep("toggleStatus")
  /\ lastOp'.id = id
  /\ id \in Ids(tasks)
  /\ TaskOf(tasks, id).repeat = "none"

RepeatingDone(task) == task.repeat # "none" /\ task.status = "done"

\* C1 as stated: in every reachable state no task has repeat != none together
\* with status = done.
C1_NoRepeatingTaskDone == \A i \in 1..Len(tasks) : ~RepeatingDone(tasks[i])

\* C1 as amended: toggleStatus always leaves a repeating task in status todo,
\* and no operation turns a task that is not done into a repeating task that is
\* done: a task has repeat != none together with status = done after a step only
\* if the task of that id (in the collection or in the undo slot) was already
\* done before the step, as when an edit sets repeat on a completed task.
C1_RepeatingDoneOnlyByEditOfDone ==
  [][/\ \A id \in Ids(tasks) :
          (HandlerStep("toggleStatus") /\ lastOp'.id = id
             /\ TaskOf(tasks', id).repeat # "none")
            => TaskOf(tasks', id).status = "todo"
     /\ \A i \in 1..Len(tasks') :
          RepeatingDone(tasks'[i])
            => \E t \in Range(tasks) \cup Range(recentlyDeleted) :
                 t.id = tasks'[i].id /\ t.status = "done"]_vars

\* C1 witness: a repeating task has just been completed and is todo again.
C1_Witness ==
  /\ lastOp.op = "toggleStatus"
  /\ lastOp.id \in Ids(tasks)
  /\ TaskOf(tasks, lastOp.id).repeat # "none"
  /\ TaskOf(tasks, lastOp.id).lastCompletedAt = now
  /\ TaskOf(tasks, lastOp.id).status = "todo"

\* The number of calendar periods of the cadence between two instants, from
\* the civil dates: days, weeks starting on Sunday, months, years.
WeekNumber(t) == (DayOf(t) + 4) \div 7

PeriodsBetween(repeat, a, b) ==
  LET ca == CivilFromDays(DayOf(a))
      cb == CivilFromDays(DayOf(b))
  IN  CASE repeat = "daily"   -> DayOf(a) - DayOf(b)
        [] repeat = "weekly"  -> WeekNumber(a) - WeekNumber(b)
        [] repeat = "monthly" -> (12 * ca.y + ca.m) - (12 * cb.y + cb.m)
        [] repeat = "yearly"  -> ca.y - cb.y

\* C2: completing a repeating task sets the streak to 1 when lastCompletedAt is
\* unset; otherwise, with delta the calendar-period difference between now and
\* lastCompletedAt, to the old streak if delta <= 0, the old streak + 1 if
\* delta = 1, and 1 if delta > 1.
C2_StreakOnCompletion ==
  [][\A id \in Ids(tasks) :
       CompletesRepeating(id) =>
         LET old   == TaskOf(tasks, id)
             delta == PeriodsBetween(old.repeat, now, old.lastCompletedAt)
         IN  TaskOf(tasks', id).streak =
               IF old.lastCompletedAt = NULL THEN 1
               ELSE IF delta <= 0 THEN old.streak
               ELSE IF delta = 1 THEN old.streak + 1
               ELSE 1]_vars

\* C2 witness: a habit with a streak of 3 has missed a day and was completed:
\* its streak is back to 1.
C2_Witness ==
  /\ lastOp = [op |-> "toggleStatus", id |-> StoredHabit.id, arg |-> ""]
  /\ StoredHabit.id \in Ids(tasks)
  /\ LET habit == TaskOf(tasks, StoredHabit.id)
     IN  /\ habit.repeat = "daily"
         /\ habit.lastCompletedAt = now
         /\ Len(habit.completedDates) = 4
         /\ habit.streak = 1

\* The day a cadence unit after day z: the next day, the same weekday of the
\* next week, the same day of the next month or year, or that month's last day.
DayNumber(y, m, d) == DaysFromCivil(y, m, d)

LastDayOfMonth(y, m) == CivilFromDays(DayNumber(y, m + 1, 1) - 1).d

OneUnitLater(repeat, z) ==
  LET c == CivilFromDays(z)
      clamp(y, m) == IF c.d <= LastDayOfMonth(y, m) THEN c.d ELSE LastDayOfMonth(y, m)
  IN  CASE repeat = "daily"   -> z + 1
        [] repeat = "weekly"  -> z + 7
        [] repeat = "monthly" ->
             IF c.m = 12 THEN DayNumber(c.y + 1, 1, clamp(c.y + 1, 1))
             ELSE DayNumber(c.y, c.m + 1, clamp(c.y, c.m + 1))
        [] repeat = "yearly"  -> DayNumber(c.y + 1, c.m, clamp(c.y + 1, c.m))

\* C3: completing a repeating task sets dueDate to the start of the day one
\* cadence unit after the old dueDate (after now when there is none), whatever
\* the completion instant; a daily task's due date D becomes D + 1 day and a
\* weekly task's D + 7 days; and no step other than a completion, an edit or a
\* drop onto a day changes a due date, so k completions give D + k days (weeks).
C3_DueDateAdvancesOneUnit ==
  [][/\ \A id \in Ids(tasks) :
          CompletesRepeating(id) =>
            LET old  == TaskOf(tasks, id)
                base == IF old.dueDate # NULL THEN old.dueDate ELSE now
                new  == TaskOf(tasks', id).dueDate
            IN  /\ new # NULL
                /\ TimeOfDay(new) = 0
                /\ DayOf(new) = OneUnitLater(old.repeat, DayOf(base))
                /\ (old.dueDate # NULL /\ old.repeat = "daily")
                     => new = old.dueDate + DayLen
                /\ (old.dueDate # NULL /\ old.repeat = "weekly")
                     => new = old.dueDate + 7 * DayLen
     /\ \A id \in Ids(tasks) \cap Ids(tasks') :
          TaskOf(tasks', id).dueDate # TaskOf(tasks, id).dueDate
            => \/ CompletesRepeating(id)
               \/ (lastOp'.id = id /\ (HandlerStep("handleSave")
                                         \/ HandlerStep("setTaskDueDate")))]_vars

\* C3 witness: the stored habit, due on 2023-12-30, was completed twice, the
\* second time two days late: it is due on 2024-01-01, two days after D.
C3_Witness ==
  /\ lastOp = [op |-> "toggleStatus", id |-> StoredHabit.id, arg |-> ""]
  /\ StoredHabit.id \in Ids(tasks)
  /\ LET habit == TaskOf(tasks, StoredHabit.id)
     IN  /\ habit.lastCompletedAt = now
         /\ DayOf(now) = DayNumber(2024, 1, 1)
         /\ habit.completedDates[Len(habit.completedDates) - 1] = <<2023, 12, 30>>
         /\ habit.dueDate = StoredHabit.dueDate + 2 * DayLen

\* C4: toggleStatus on a task with repeat = none leaves its streak and its
\* completedDates as they were.
C4_PlainToggleKeepsStreak ==
  [][\A id \in Ids(tasks) :
       TogglesPlain(id) =>
         /\ TaskOf(tasks', id).streak = TaskOf(tasks, id).streak
         /\ TaskOf(tasks', id).completedDates = TaskOf(tasks, id).completedDates]_vars

\* C4 witness: a non-repeating task that was never completed has been completed.
C4_Witness ==
  /\ lastOp.op = "toggleStatus"
  /\ lastOp.id \in Ids(tasks)
  /\ LET task == TaskOf(tasks, lastOp.id)
     IN  /\ task.repeat = "none"
         /\ task.status = "done"
         /\ task.lastCompletedAt = now
         /\ task.streak = 0
         /\ task.completedDates = <<>>

\* C5: toggleStatus on a non-repeating task sets status to done when it was
\* todo or in-progress and to todo when it was done; lastCompletedAt becomes now
\* when completing and keeps its value when un-completing.
C5_PlainToggleFlipsStatus ==
  [][\A id \in Ids(tasks) :
       TogglesPlain(id) =>
         LET old == TaskOf(tasks, id)
             new == TaskOf(tasks', id)
         IN  /\ old.status \in {"todo", "in-progress"}
                  => new.status = "done" /\ new.lastCompletedAt = now
             /\ old.status = "done"
                  => new.status = "todo" /\ new.lastCompletedAt = old.lastCompletedAt]_vars

\* C5 witness: the task in progress was completed and, after the clock moved
\* on, un-completed: it is todo and keeps the instant of its completion.
C5_Witness ==
  /\ lastOp = [op |-> "toggleStatus", id |-> StoredTask.id, arg |-> ""]
  /\ StoredTask.id \in Ids(tasks)
  /\ LET task == TaskOf(tasks, StoredTask.id)
     IN  /\ task.repeat = "none"
         /\ task.status = "todo"
         /\ task.lastCompletedAt # NULL
         /\ task.lastCompletedAt < now

\* C6: completing a repeating task leaves the date key of the day of now in
\* completedDates exactly once, however often the task is completed that day,
\* and changes no other key.
C6_CompletedDatesIsASet ==
  [][\A id \in Ids(tasks) :
       CompletesRepeating(id) =>
         LET c     == CivilFromDays(DayOf(now))
             today == <<c.y, c.m, c.d>>
             old   == TaskOf(tasks, id).completedDates
             new   == TaskOf(tasks', id).completedDates
         IN  /\ Count(new, today) = 1
             /\ \A key \in (Range(old) \cup Range(new)) \ {today} :
                  Count(new, key) = Count(old, key)]_vars

\* C6 witness: the stored habit was completed twice on 2023-12-30 (its due date
\* moved on by two days while the clock stayed on that day), and its
\* completedDates holds that day once, after the two days it held before.
C6_Witness ==
  /\ lastOp = [op |-> "toggleStatus", id |-> StoredHabit.id, arg |-> ""]
  /\ StoredHabit.id \in Ids(tasks)
  /\ now \in StartInstants
  /\ LET habit == TaskOf(tasks, StoredHabit.id)
     IN  /\ habit.repeat = "daily"
         /\ habit.dueDate = StoredHabit.dueDate + 2 * DayLen
         /\ habit.completedDates = Append(StoredHabit.completedDates, <<2023, 12, 30>>)

\* C7: a completed repeating task is rewritten in place: the collection keeps
\* its length and the order of its ids, the task is todo with lastCompletedAt =
\* now at the index it had, every other task is as it was, and no task is
\* created.
C7_RepeatingRewrittenInPlace ==
  [][\A id \in Ids(tasks) :
       CompletesRepeating(id) =>
         /\ Len(tasks') = Len(tasks)
         /\ nextId' = nextId
         /\ \A i \in 1..Len(tasks) :
              /\ tasks'[i].id = tasks[i].id
              /\ tasks[i].id # id => tasks'[i] = tasks[i]
              /\ tasks[i].id = id => /\ tasks'[i].status = "todo"
                                     /\ tasks'[i].lastCompletedAt = now]_vars

\* C7 witness: the stored habit was completed while it was the second of three
\* tasks, and it is still the second.
C7_Witness ==
  /\ lastOp = [op |-> "toggleStatus", id |-> StoredHabit.id, arg |-> ""]
  /\ Len(tasks) = 3
  /\ tasks[2].id = StoredHabit.id
  /\ tasks[2].lastCompletedAt = now
  /\ tasks[2].status = "todo"
  /\ tasks[3].id = StoredTask.id

\* C8: addTask, when it creates a task, and addTasks put the new task at the
\* front of the collection, before the tasks that were there, which keep their
\* order.
C8_NewTasksAtFront ==
  [][((HandlerStep("addTask") \/ HandlerStep("addTasks")) /\ tasks' # tasks) =>
       /\ Len(tasks') = Len(tasks) + 1
       /\ tasks'[1].id \notin Ids(tasks)
       /\ tasks'[1].createdAt = now
       /\ \A i \in 1..Len(tasks) : tasks'[i + 1] = tasks[i]]_vars

\* C8 witness: a template's task was added to the two stored tasks and is the
\* first of the three.
C8_Witness ==
  /\ lastOp.op = "addTasks"
  /\ Len(tasks) = 3
  /\ tasks[1].id = lastOp.id
  /\ tasks[1].createdAt = now
  /\ tasks[2].id = StoredHabit.id
  /\ tasks[3].id = StoredTask.id

\* The words of a line: its maximal runs of characters other than spaces.
RECURSIVE WordsOf(_)
WordsOf(s) ==
  LET t == trim(s)
      firstSpace == IF \E i \in 1..Len(t) : SubSeq(t, i, i) \in SpaceChars
                      THEN CHOOSE i \in 1..Len(t) :
                             /\ SubSeq(t, i, i) \in SpaceChars
                             /\ \A j \in 1..(i - 1) : SubSeq(t, j, j) \notin SpaceChars
                      ELSE 0
  IN  IF t = "" THEN {}
      ELSE IF firstSpace = 0 THEN {t}
      ELSE {SubSeq(t, 1, firstSpace - 1)} \cup WordsOf(SubSeq(t, firstSpace, Len(t)))

\* A category or tag directive (#slug, @slug) or a priority directive.
IsDirective(word) ==
  \/ /\ Len(word) > 1
     /\ SubSeq(word, 1, 1) \in {"#", "@"}
     /\ \A i \in 2..Len(word) : SubSeq(word, i, i) \in SlugChars
  \/ word \in {"!high", "!medium", "!low"}

\* The lines a user may enter that are empty or hold directives only.
DirectiveOnlyLines == {input \in InputLines : \A word \in WordsOf(input) : IsDirective(word)}

\* C9 as stated: addTask on the empty string, or on a line that consists only
\* of directives, creates no task: the collection and the persisted blob are
\* unchanged.
C9_DirectiveOnlyCreatesNothing ==
  [][(HandlerStep("addTask") /\ lastOp'.arg \in DirectiveOnlyLines) =>
       /\ tasks' = tasks
       /\ storage' = storage]_vars

\* The slot and its timer are set and cleared together.
SlotPending == recentlyDeleted # <<>> /\ deleteTimeout # NULL

SlotEmpty == recentlyDeleted = <<>> /\ deleteTimeout = NULL

\* C10: deleteTask removes the task and holds it in the undo slot until the
\* expiry, five seconds later; undoDelete before the expiry puts the held task
\* at the front of the collection and empties the slot; undoDelete after the
\* expiry, or with nothing held, changes nothing; and the slot is emptied at
\* the expiry.
C10_UndoRestoresAtFront ==
  [][/\ \A id \in Ids(tasks) :
          (HandlerStep("deleteTask") /\ lastOp'.id = id) =>
            /\ recentlyDeleted' = <<TaskOf(tasks, id)>>
            /\ deleteTimeout' = now + 5
            /\ tasks' = SelectSeq(tasks, LAMBDA task : task.id # id)
     /\ (HandlerStep("undoDelete") /\ recentlyDeleted # <<>>) =>
            /\ now < deleteTimeout
            /\ tasks' = recentlyDeleted \o tasks
            /\ SlotEmpty'
     /\ (HandlerStep("undoDelete") /\ recentlyDeleted = <<>>) =>
            /\ tasks' = tasks
            /\ storage' = storage
            /\ SlotEmpty'
     /\ (SlotPending /\ now < deleteTimeout
           /\ ~HandlerStep("deleteTask") /\ ~HandlerStep("undoDelete")) =>
            /\ recentlyDeleted' = recentlyDeleted
            /\ deleteTimeout' = deleteTimeout
     /\ (SlotPending /\ now >= deleteTimeout) => SlotEmpty'
     /\ SlotPending' \/ SlotEmpty']_vars

\* C10 witness: the second of the two stored tasks was deleted and, three
\* seconds later, restored: it is the first of the two and the slot is empty.
C10_Witness ==
  /\ lastOp.op = "undoDelete"
  /\ now = (CHOOSE t \in StartInstants : TRUE) + 3
  /\ ops = 3
  /\ Len(tasks) = 2
  /\ tasks[1].id = StoredTask.id
  /\ tasks[2].id = StoredHabit.id
  /\ SlotEmpty

\* C11: the undo buffer is single-slot.  When a task is deleted while an
\* earlier delete is pending, the slot holds the later task only, the earlier
\* timer is outstanding no more and one timer is, due a full five seconds after
\* the later delete; the earlier task is neither in the collection nor in the
\* slot, and undoDelete brings back no task but the one the slot holds; at no
\* time is more than one expiry timer outstanding.
C11_SingleSlotUndo ==
  [][/\ Cardinality(undoTimers') <= 1
     /\ Len(recentlyDeleted') <= 1
     /\ \A id \in Ids(tasks) :
          (HandlerStep("deleteTask") /\ lastOp'.id = id /\ recentlyDeleted # <<>>) =>
            /\ recentlyDeleted' = <<TaskOf(tasks, id)>>
            /\ undoTimers' = {[due |-> now + 5]}
            /\ recentlyDeleted[1].id \notin Ids(tasks') \cup Ids(recentlyDeleted')
     /\ HandlerStep("undoDelete") =>
          /\ Ids(tasks') \subseteq Ids(tasks) \cup Ids(recentlyDeleted)
          /\ Len(tasks') <= Len(tasks) + 1]_vars

\* C11 witness: the task in progress was deleted and, three seconds later, the
\* habit: the slot holds the habit, the collection is empty, and the one
\* outstanding timer is due five seconds after the second delete.
C11_Witness ==
  /\ lastOp = [op |-> "deleteTask", id |-> StoredHabit.id, arg |-> ""]
  /\ now = (CHOOSE t \in StartInstants : TRUE) + 3
  /\ tasks = <<>>
  /\ nextId = 1
  /\ Len(recentlyDeleted) = 1
  /\ recentlyDeleted[1].id = StoredHabit.id
  /\ undoTimers = {[due |-> now + 5]}

\* The defaults of the fields that later versions added to a task.
NewerDefaults ==
  [tags |-> <<>>, repeat |-> "none", checklist |-> <<>>, reminderAt |-> NULL,
   myDay |-> <<>>, lastCompletedAt |-> NULL, streak |-> 0,
   completedDates |-> <<>>, section |-> ""]

LoadStep == ~isReady /\ isReady'

\* A task as a reader of its fields sees it: a key whose value is undefined
\* reads as a key that is absent.
Defined(task) ==
  LET absent == {f \in DOMAIN task \cap {"streak", "lastCompletedAt"} : task[f] = UNDEFINED}
  IN  [f \in DOMAIN task \ absent |-> task[f]]

Decoded(blob) == IF blob.kind = "json" THEN blob.value ELSE <<>>

\* C12: once the store is ready, the persisted blob decodes to exactly the
\* collection in memory, after every mutation (replaceTasks included).
C12_BlobDecodesToCollection ==
  isReady =>
    /\ Len(Decoded(storage)) = Len(tasks)
    /\ \A i \in 1..Len(tasks) : Decoded(storage)[i] = Defined(tasks[i])

\* C13: the load step leaves every stored record with each newer field present,
\* and a field the stored record lacked holds its default, whichever it was.
C13_LoadFillsEveryDefault ==
  [][LoadStep =>
       /\ Len(tasks') = Len(Decoded(storage))
       /\ \A i \in 1..Len(tasks') : \A f \in DOMAIN NewerDefaults :
            /\ f \in DOMAIN tasks'[i]
            /\ f \notin DOMAIN Decoded(storage)[i] => tasks'[i][f] = NewerDefaults[f]]_vars

ImportStep(file) == HandlerStep("handleImport") /\ lastOp'.arg = file

PickedFiles == ImportFiles \cup {exportFile}

\* A task with every newer field: the field's own value where it has one, the
\* documented default where it has none.
WithDefaults(task) ==
  LET unset(f) == f \in {"streak", "lastCompletedAt"} /\ task[f] \in {NULL, UNDEFINED}
  IN  [f \in DOMAIN task \cup DOMAIN NewerDefaults |->
         IF f \in DOMAIN task /\ ~unset(f) THEN task[f] ELSE NewerDefaults[f]]

AllWithDefaults(ts) ==
  IF Len(ts) = 0 THEN <<>> ELSE [i \in 1..Len(ts) |-> WithDefaults(ts[i])]

IsArrayOfObjects(file) ==
  file.kind = "json" /\ \A i \in 1..Len(file.value) : "null" \notin DOMAIN file.value[i]

\* C14 as stated: a file that is no JSON or no array leaves the collection, the
\* blob and the undo slot unchanged; any array replaces the whole collection
\* with the normalized imported records.
C14_EveryArrayReplaces ==
  [][\A file \in PickedFiles : ImportStep(file) =>
       /\ UNCHANGED <<recentlyDeleted, deleteTimeout, undoTimers>>
       /\ IF file.kind = "json"
            THEN tasks' = AllWithDefaults(file.value)
            ELSE UNCHANGED <<tasks, storage>>]_vars

\* C14, amended: a file that is no JSON, no array, or an array that holds null
\* leaves the collection, the blob and the undo slot unchanged; an array of
\* objects replaces the whole collection with the normalized imported records,
\* in the file's order, and the blob with their encoding; the undo slot is
\* left as it was in every case.
C14_ArrayOfObjectsReplaces ==
  [][\A file \in PickedFiles : ImportStep(file) =>
       /\ UNCHANGED <<recentlyDeleted, deleteTimeout, undoTimers>>
       /\ IF IsArrayOfObjects(file)
            THEN /\ tasks' = AllWithDefaults(file.value)
                 /\ Decoded(storage') = tasks'
            ELSE UNCHANGED <<tasks, storage>>]_vars

\* C14 witness: the backup of the previous version was imported over the two
\* stored tasks: the collection is the one imported record, with its defaults.
C14_Witness ==
  /\ lastOp.op = "handleImport"
  /\ lastOp.arg = JSONstringify(<<LegacyTask>>)
  /\ Len(tasks) = 1
  /\ tasks[1].title = "water plants"
  /\ tasks[1].streak = 0
  /\ tasks[1].section = ""
  /\ storage = JSONstringify(tasks)

HasAllFields(task) ==
  {"id", "title", "category", "dueDate", "priority", "status", "notes", "createdAt"}
    \cup DOMAIN NewerDefaults \subseteq DOMAIN Defined(task)

\* C15: when the file exported from the collection is imported while the
\* collection is still the exported one, and every task of it has all fields,
\* the collection after the import is identical to the one before (same tasks,
\* same order, same field values); and normalizing a normalized task changes
\* nothing.
C15_ExportImportRoundTrip ==
  [][/\ \A i \in 1..Len(tasks') :
          normalizeTask(normalizeTask(tasks'[i])) = normalizeTask(tasks'[i])
     /\ ( /\ exportFile.kind = "json"
          /\ ImportStep(exportFile)
          /\ exportFile = JSONstringify(tasks)
          /\ \A i \in 1..Len(tasks) : HasAllFields(tasks[i]) )
        => tasks' = tasks]_vars

\* A step after which the reminder effect runs: the task set, the readiness
\* or the permission state has changed.
Reschedules == tasks' # tasks \/ isReady' # isReady \/ reminderStatus' # reminderStatus

\* The positions of the tasks that are due a reminder after instant t.
AwaitingReminder(ts, t) ==
  {i \in 1..Len(ts) : ts[i].reminderAt # NULL /\ ts[i].status # "done" /\ ts[i].reminderAt > t}

\* C16: after every reschedule the outstanding reminder timers are, when the
\* store is ready and the permission state is granted, exactly one for each
\* task that is not done and has a reminderAt after now, and none otherwise;
\* none of them was set by an earlier reschedule, and each of them is held by
\* the timer map, through which it can be cancelled.
C16_TimersMatchTasks ==
  [][Reschedules =>
       IF isReady' /\ reminderStatus' = "granted"
         THEN /\ Cardinality(remindTimers') = Cardinality(AwaitingReminder(tasks', now'))
              /\ \A i \in AwaitingReminder(tasks', now') :
                   \E timeout \in remindTimers' : timeout.id = tasks'[i].id
              /\ \A timeout \in remindTimers' :
                   /\ \E i \in AwaitingReminder(tasks', now') : timeout.id = tasks'[i].id
                   /\ timeout.made = ops'
                   /\ \E id \in DOMAIN reminderTimeouts' : reminderTimeouts'[id] = timeout
         ELSE remindTimers' = {}]_vars

\* C17: a notification is raised for a task only at the task's reminderAt
\* instant, and only if at that instant the permission is granted and the task
\* is in the collection with a status other than done and with that reminderAt
\* (so none is raised for a task completed or deleted, or for an instant the
\* reminder was moved away from).
C17_NotifiedOnlyWhenDue ==
  [][\A n \in notifications' \ notifications :
       /\ permission = "granted"
       /\ \E i \in 1..Len(tasks) :
            /\ tasks[i].id = n.id
            /\ tasks[i].status # "done"
            /\ tasks[i].reminderAt = n.at]_vars

\* The task that the last addTask has put at the front, if it made one.
Captured(line) ==
  /\ lastOp.op = "addTask"
  /\ lastOp.arg = line
  /\ tasks # <<>>
  /\ tasks[1].id = lastOp.id

\* The priority a !-token names.
PriorityOfToken == [w \in {"!high", "!med", "!medium", "!low"} |->
                      IF w = "!high" THEN "high" ELSE IF w = "!low" THEN "low" ELSE "medium"]

\* C18: the line "Ship report #work @deadline !high every week >Launch" is
\* captured as category work, tags [deadline], priority high, repeat weekly,
\* section "Launch" and title "Ship report"; and on every line a !high, !med,
\* !medium or !low token that follows a space sets the priority it names and
\* is not left in the title.
C18_PriorityTokenRecognised ==
  /\ Captured("Ship report #work @deadline !high every week >Launch") =>
       /\ tasks[1].category = "work"
       /\ tasks[1].tags = <<"deadline">>
       /\ tasks[1].priority = "high"
       /\ tasks[1].repeat = "weekly"
       /\ tasks[1].section = "Launch"
       /\ tasks[1].title = "Ship report"
  /\ \A line \in PriorityLines : \A w \in DOMAIN PriorityOfToken :
       (Captured(line) /\ w \in WordsOf(line)) =>
         /\ tasks[1].priority = PriorityOfToken[w]
         /\ w \notin WordsOf(tasks[1].title)

\* The weekday a name stands for, Sunday being 0, and the weekday of a day
\* number (day 0, the first of January 1970, was a Thursday).
WeekdayOfName ==
  [w \in Range(WeekdayWords) |->
     CASE SubSeq(w, 1, 2) = "su" -> 0
       [] SubSeq(w, 1, 1) = "m" -> 1
       [] SubSeq(w, 1, 2) = "tu" -> 2
       [] SubSeq(w, 1, 1) = "w" -> 3
       [] SubSeq(w, 1, 2) = "th" -> 4
       [] SubSeq(w, 1, 1) = "f" -> 5
       [] OTHER -> 6]

WeekdayOfDay(z) == (z + 4) % 7

Today == now \div 86400

\* The day a due date falls on; it must be that day's first instant.
DueDay(task) == task.dueDate \div 86400

IsStartOfDay(t) == t # NULL /\ t % 86400 = 0

\* C19 as stated: a bare weekday gives the start of day of the most recent
\* day with that weekday on or before today: in [today - 6, today], never later.
C19_BareWeekdayLooksBack ==
  \A w \in Range(WeekdayWords) :
    Captured("gym " \o w) =>
      /\ IsStartOfDay(tasks[1].dueDate)
      /\ WeekdayOfDay(DueDay(tasks[1])) = WeekdayOfName[w]
      /\ DueDay(tasks[1]) \in (Today - 6)..Today

\* C19, amended: a bare weekday gives the start of day of the first day with
\* that weekday on or after today: in [today, today + 6], never earlier, and
\* today itself when today is that weekday.
C19_BareWeekdayLooksAhead ==
  \A w \in Range(WeekdayWords) :
    Captured("gym " \o w) =>
      /\ IsStartOfDay(tasks[1].dueDate)
      /\ WeekdayOfDay(DueDay(tasks[1])) = WeekdayOfName[w]
      /\ DueDay(tasks[1]) \in Today..(Today + 6)

\* C19 witness: "gym sun" entered on Saturday 30 December 2023 is due on
\* Sunday 31 December, the day after.
C19_Witness ==
  /\ Captured("gym sun")
  /\ Today = DayNumber(2023, 12, 30)
  /\ tasks[1].dueDate = DayNumber(2023, 12, 31) * 86400

\* The week of a day, weeks starting on Sunday.
WeekOfDay(z) == (z + 4) \div 7

\* C20 as stated: "next w" gives the start of day of a day with weekday w after
\* today that lies in the week following the current one.
C20_NextWeekdayInFollowingWeek ==
  \A w \in Range(WeekdayWords) :
    Captured("gym next " \o w) =>
      /\ IsStartOfDay(tasks[1].dueDate)
      /\ WeekdayOfDay(DueDay(tasks[1])) = WeekdayOfName[w]
      /\ DueDay(tasks[1]) > Today
      /\ WeekOfDay(DueDay(tasks[1])) = WeekOfDay(Today) + 1

\* C20, amended: "next w" gives the start of day of the first day with weekday
\* w strictly after today: in [today + 1, today + 7], a week from today when
\* today is that weekday, and in the current week when w is still ahead in it.
C20_NextWeekdayStrictlyAfter ==
  \A w \in Range(WeekdayWords) :
    Captured("gym next " \o w) =>
      /\ IsStartOfDay(tasks[1].dueDate)
      /\ WeekdayOfDay(DueDay(tasks[1])) = WeekdayOfName[w]
      /\ DueDay(tasks[1]) \in (Today + 1)..(Today + 7)
      /\ WeekdayOfName[w] > WeekdayOfDay(Today) =>
           WeekOfDay(DueDay(tasks[1])) = WeekOfDay(Today)

\* C20 witness: "gym next friday" entered on Monday 25 December 2023 is due on
\* Friday 29 December, in the same week.
C20_Witness ==
  /\ Captured("gym next friday")
  /\ Today = DayNumber(2023, 12, 25)
  /\ WeekOfDay(Today) = WeekOfDay(DueDay(tasks[1]))
  /\ tasks[1].dueDate = DayNumber(2023, 12, 29) * 86400

\* What the tokens of a time line spell: the hour, the minutes (0 when there
\* are none), the meridiem and the days to add.
HourSpelled ==
  [h \in {"0", "3", "9", "09", "11", "12", "13", "23", "24"} |->
     CASE h = "0" -> 0 [] h = "3" -> 3 [] h \in {"9", "09"} -> 9 [] h = "11" -> 11
       [] h = "12" -> 12 [] h = "13" -> 13 [] h = "23" -> 23 [] OTHER -> 24]

MinutesSpelled == [m \in {"", ":05", ":60"} |-> IF m = "" THEN 0 ELSE IF m = ":05" THEN 5 ELSE 60]

MeridiemSpelled == [m \in {"", "am", "pm", " pm"} |-> IF m = " pm" THEN "pm" ELSE m]

DaysSpelled == [d \in {"", "today ", "tomorrow "} |-> IF d = "tomorrow " THEN 1 ELSE 0]

CapturedTime(t) == Captured(TimeLine(t[1], t[2], t[3], t[4], t[5]))

\* The instant h hours and m minutes after the start of the day that lies the
\* given number of days after today.
ClockInstant(days, h, m) == (Today + days) * 86400 + h * 3600 + m * 60

\* C21 as stated: the reminder is on the reference day, or the day after for
\* "tomorrow", at hour h and the minutes given, h being 0 for 12am, 12 for
\* 12pm, H + 12 for H in 1..11 with pm, and H otherwise.
C21_HourByMeridiemFrom1 ==
  \A t \in TimeTokens :
    CapturedTime(t) =>
      LET H == HourSpelled[t[3]]
          m == MeridiemSpelled[t[5]]
          h == IF m = "am" /\ H = 12 THEN 0
               ELSE IF m = "pm" /\ H \in 1..11 THEN H + 12
               ELSE H
      IN  tasks[1].reminderAt = ClockInstant(DaysSpelled[t[2]], h, MinutesSpelled[t[4]])

\* C21, amended: the reminder is h hours and the minutes given after the start
\* of the reference day, or of the day after for "tomorrow", h being 0 for
\* 12am, 12 for 12pm, H + 12 for H in 0..11 with pm, and H otherwise.
C21_HourByMeridiemFrom0 ==
  \A t \in TimeTokens :
    CapturedTime(t) =>
      LET H == HourSpelled[t[3]]
          m == MeridiemSpelled[t[5]]
          h == IF m = "am" /\ H = 12 THEN 0
               ELSE IF m = "pm" /\ H \in 0..11 THEN H + 12
               ELSE H
      IN  tasks[1].reminderAt = ClockInstant(DaysSpelled[t[2]], h, MinutesSpelled[t[4]])

\* C21 witness: "x remind tomorrow 3pm" typed on 30 December 2023 gives a
\* reminder at 15:00 on the 31st.
C21_Witness ==
  /\ Captured("x remind tomorrow 3pm")
  /\ Today = DayNumber(2023, 12, 30)
  /\ tasks[1].reminderAt = DayNumber(2023, 12, 31) * 86400 + 15 * 3600
  /\ tasks[1].title = "x"

\* C30: a reminder read from a time token falls on the reference calendar day,
\* or on the day after it when the day word is "tomorrow", whatever hour and
\* minutes the token spells.
C30_TimeTokenStaysOnItsDay ==
  \A t \in TimeTokens :
    (CapturedTime(t) /\ tasks[1].reminderAt # NULL) =>
      tasks[1].reminderAt \div 86400 = Today + DaysSpelled[t[2]]

(***************************************************************************)
(* C22, C23: what the operations of the store keep of a task.              *)
(***************************************************************************)
\* The creation values of the tasks of a sequence, position by position.
Born(ts) == [i \in 1..Len(ts) |-> <<ts[i].id, ts[i].createdAt>>]

\* A sequence without its element at a position.
RemoveAt(xs, at) == SubSeq(xs, 1, at - 1) \o SubSeq(xs, at + 1, Len(xs))

\* A handler that rewrites tasks where they stand.
RewritesInPlace ==
  \/ HandlerStep("handleSave")
  \/ HandlerStep("updateTask")
  \/ HandlerStep("setTaskDueDate")
  \/ HandlerStep("toggleStatus")

\* C22: an edit save, a My Day, snooze or bucket update, a calendar drop and a
\* toggle leave id and createdAt of the task at every position, and of the
\* task in the undo slot, as they were; a delete moves the task with its id
\* and createdAt into the undo slot and an undo moves it with both to the
\* front of the collection, the other tasks keeping theirs.
C22_CreationValuesKept ==
  [][/\ RewritesInPlace =>
          /\ Born(tasks') = Born(tasks)
          /\ Born(recentlyDeleted') = Born(recentlyDeleted)
     /\ (HandlerStep("deleteTask") /\ lastOp'.id \in Ids(tasks)) =>
          LET at == CHOOSE i \in 1..Len(tasks) : tasks[i].id = lastOp'.id
          IN  /\ Born(recentlyDeleted') = <<Born(tasks)[at]>>
              /\ Born(tasks') = RemoveAt(Born(tasks), at)
     /\ (HandlerStep("undoDelete") /\ recentlyDeleted # <<>>) =>
          Born(tasks') = Born(recentlyDeleted) \o Born(tasks)]_vars

\* The stored habit was moved to Someday, completed, deleted and restored:
\* it is at the front with the id and createdAt it was stored with.
C22_Witness ==
  /\ lastOp.op = "undoDelete"
  /\ tasks # <<>>
  /\ tasks[1].id = -1
  /\ tasks[1].createdAt = DayNumber(2023, 12, 27) * 86400
  /\ tasks[1].streak = 3
  /\ FieldOr(tasks[1], "bucket", "") = "someday"

\* C23: in every reachable state the due date of every task, in the
\* collection or in the undo slot, is null or the first instant of a day.
C23_DueDateIsStartOfDay ==
  \A task \in Range(tasks) \cup Range(recentlyDeleted) :
    task.dueDate = NULL \/ IsStartOfDay(task.dueDate)

\* The captured "gym fri" was given a monthly cadence and the due date
\* 2024-01-31 in the edit form and then completed: its due date was written
\* by the capture, by the edit save and last by the rollover.
C23_Witness ==
  /\ lastOp.op = "toggleStatus"
  /\ \E task \in Range(tasks) :
       /\ task.id = lastOp.id
       /\ task.title = "gym"
       /\ task.repeat = "monthly"
       /\ task.dueDate = DayNumber(2024, 2, 29) * 86400

(***************************************************************************)
(* C24: the ids of the collection and of the undo slot.                    *)
(***************************************************************************)
\* The id of a record; a record that is no task has none.
IdOf(record) == FieldOr(record, "id", UNDEFINED)

PairwiseDistinctIds(ts) ==
  \A i \in 1..Len(ts), j \in 1..Len(ts) : i # j => IdOf(ts[i]) # IdOf(ts[j])

\* The picked files whose array holds no id twice: all of them, as long as
\* the collection that was exported held no id twice.
DistinctPayloads ==
  \A file \in PickedFiles : file.kind = "json" => PairwiseDistinctIds(file.value)

\* C24: in every reachable state, as long as no picked file holds an id
\* twice, the ids of the collection are pairwise distinct and the task in the
\* undo slot is not also in the collection.
C24_IdsDistinctAndSlotApart ==
  DistinctPayloads =>
    /\ PairwiseDistinctIds(tasks)
    /\ \A held \in Range(recentlyDeleted), task \in Range(tasks) :
         IdOf(held) # IdOf(task)

(***************************************************************************)
(* C25: how often a reminder is delivered.                                 *)
(***************************************************************************)
\* The callback of the reminder timer runs and raises its notification.
Delivers(timeout) ==
  /\ timeout \in remindTimers
  /\ remindTimers' = remindTimers \ {timeout}
  /\ ops' = ops
  /\ permission = "granted"

\* C25: a reminder is delivered at most once for a task and its reminderAt (no
\* task changes its reminderAt here): the callback of a timer raises no
\* notification for a task that one was raised for before; and a timer is set
\* only for a task whose reminderAt is strictly after the instant at which
\* the timers are built, so that a reminder not after that instant is never
\* delivered.
C25_DeliveredAtMostOnce ==
  [][/\ \A timeout \in remindTimers :
          Delivers(timeout) => \A n \in notifications : n.id # timeout.id
     /\ \A timeout \in remindTimers' \ remindTimers :
          \E i \in 1..Len(tasks') :
            /\ tasks'[i].id = timeout.id
            /\ tasks'[i].reminderAt # NULL
            /\ tasks'[i].reminderAt > now']_vars

(***************************************************************************)
(* C26, C27: the streak and the log of completed days.                     *)
(***************************************************************************)
\* C26: right after toggleStatus has completed a repeating task (repeat is
\* not none, status was not done), the streak of that task is at least 1.
C26_StreakAtLeastOneAfterCompletion ==
  [][\A id \in Ids(tasks) :
       CompletesRepeating(id) => TaskOf(tasks', id).streak >= 1]_vars

\* The number of distinct date-keys in a task's log of completed days.
DistinctKeys(task) == Cardinality(Range(task.completedDates))

\* C27: in every reachable state the streak of every task, in the collection
\* or in the undo slot, is at least 0 and at most the number of distinct
\* date-keys in its completedDates.
C27_StreakBoundedByCompletedDays ==
  \A task \in Range(tasks) \cup Range(recentlyDeleted) :
    0 <= task.streak /\ task.streak <= DistinctKeys(task)

\* The stored habit (streak 2, two days logged) was completed on the third
\* day in a row, edited, and completed again the same day: streak 3, three keys.
C27_Witness ==
  /\ lastOp.op = "toggleStatus"
  /\ \E task \in Range(tasks) :
       /\ task.id = lastOp.id
       /\ task.id = -1
       /\ task.repeat # "daily"
       /\ task.streak = 3
       /\ DistinctKeys(task) = 3

(***************************************************************************)
(* C28, C29: what an update and a toggle leave alone.                      *)
(***************************************************************************)
\* The fields the edit form passes to onUpdate.
SavedNames ==
  {"title", "notes", "category", "section", "priority", "tags", "repeat", "dueDate",
   "snoozedUntil", "bucket", "reminderAt", "checklist"}

\* The fields that the update of this step names.
NamedFields ==
  IF lastOp'.op = "updateTask" THEN DOMAIN lastOp'.arg
  ELSE IF lastOp'.op = "setTaskDueDate" THEN {"dueDate"}
  ELSE SavedNames

\* The step rewrites, of the tasks with the id of the call, the given fields
\* at most, and leaves every other task, the order, the length and the undo
\* slot as they were; with no task of that id the collection is as it was.
TouchesOnly(fields) ==
  /\ Len(tasks') = Len(tasks)
  /\ recentlyDeleted' = recentlyDeleted
  /\ \A i \in 1..Len(tasks) :
       IF tasks[i].id = lastOp'.id
         THEN /\ DOMAIN tasks[i] \subseteq DOMAIN tasks'[i]
              /\ DOMAIN tasks'[i] \subseteq DOMAIN tasks[i] \cup fields
              /\ \A f \in DOMAIN tasks[i] \ fields : tasks'[i][f] = tasks[i][f]
         ELSE tasks'[i] = tasks[i]
  /\ lastOp'.id \notin Ids(tasks) => tasks' = tasks

\* C28: updateTask(id, fields), from a button of the item or from the edit
\* form, and setTaskDueDate(id, d) change only the named fields of the task
\* with that id, set the fields of a button's update to the values given, and
\* leave every other task, the order, the length and the undo slot alone;
\* when no task has the id, the collection is unchanged.
C28_UpdateTouchesNamedFieldsOnly ==
  [][(HandlerStep("updateTask") \/ HandlerStep("setTaskDueDate") \/ HandlerStep("handleSave"))
       => /\ TouchesOnly(NamedFields)
          /\ HandlerStep("updateTask") =>
               \A i \in 1..Len(tasks) :
                 tasks[i].id = lastOp'.id =>
                   \A f \in DOMAIN lastOp'.arg : tasks'[i][f] = lastOp'.arg[f]]_vars

\* One of the two tasks of the collection was planned for today with the
\* My Day button while a third task was in the undo slot.
C28_Witness ==
  /\ lastOp.op = "updateTask"
  /\ DOMAIN lastOp.arg = {"myDay"}
  /\ Len(tasks) = 2
  /\ recentlyDeleted # <<>>
  /\ TaskOf(tasks, lastOp.id).myDay = <<<<2023, 12, 30>>>>

\* C29: toggleStatus(id) changes at most status, dueDate, lastCompletedAt,
\* streak and completedDates of the task with that id; its other fields, every
\* other task, the order, the length and the undo slot are unchanged; when no
\* task has the id, the collection is unchanged.
C29_ToggleTouchesCompletionFieldsOnly ==
  [][HandlerStep("toggleStatus")
       => TouchesOnly({"status", "dueDate", "lastCompletedAt", "streak",
                       "completedDates"})]_vars

\* The stored habit, planned for today, was completed while the other task
\* was in the undo slot: streak 3, still in My Day.
C29_Witness ==
  /\ lastOp.op = "toggleStatus"
  /\ lastOp.id = -1
  /\ recentlyDeleted # <<>>
  /\ \E task \in Range(tasks) :
       task.id = -1 /\ task.streak = 3 /\ task.myDay = <<<<2023, 12, 30>>>>

====
